---- MODULE Spec2Model ----
(***************************************************************************)
(* A model of the document-processor pipeline: the ingest stage            *)
(* (app/tasks/process_document.py) with its audit log (app/utils.py), and  *)
(* the mailbox poller with its Redis lock and seen-mail cache              *)
(* (app/tasks/imap_tasks.py).                                              *)
(***************************************************************************)
EXTENDS Integers, Sequences, FiniteSets, TLC

(***************************************************************************)
(* Bounds of the model.                                                    *)
(***************************************************************************)
\* Number of process_document tasks submitted by the ingress endpoints.
MaxTasks == 2
\* Number of automatic re-attempts of a raised task (BaseTaskWithRetry).
MaxRetries == 1

\* Number of scheduled ticks of pull_all_inboxes.
MaxTicks == 2
\* Last day of the model's calendar (days since the start).
MaxDay == 7
\* Documents that are past the ingest stage when the later stages are run.
MaxDocs == 1
\* Logging calls made for one task when the logging helper is run alone.
MaxLog == 2

Tasks == 1..MaxTasks
Ticks == 1..MaxTicks
Docs == 1..MaxDocs

(***************************************************************************)
(* The input files.  Content is a small token standing for the raw bytes:  *)
(* "A" is a PDF with embedded text, "S" a scanned PDF without text, and    *)
(* Missing marks a path at which no file exists.  in1.pdf and copy1.pdf    *)
(* hold identical bytes under different names.                             *)
(***************************************************************************)
Missing == "missing"
Contents == {"A", "S"}
\* A path is a tuple of its components; the empty tuple is the empty string.
NoPath == <<>>
Paths == {<<"workdir", "in1.pdf">>, <<"workdir", "copy1.pdf">>,
          <<"workdir", "scan.pdf">>, <<"workdir", "gone.pdf">>}

InputFs ==
  [p \in Paths |->
     CASE p[2] = "in1.pdf"   -> "A"
       [] p[2] = "copy1.pdf" -> "A"
       [] p[2] = "scan.pdf"  -> "S"
       [] OTHER              -> Missing]

VARIABLES
  fs,          \* input files: path -> content or Missing
  tmpfs,       \* <workdir>/tmp: path -> content, for the paths that exist
  records,     \* the files table: sequence of committed FileRecord rows
  audit,       \* processing_logs, as written by each task: task -> Seq(row)
  queue,       \* successor tasks enqueued with .delay(): set of messages
  arg,         \* task -> the original_local_file it was submitted with
  pc,          \* task -> position in process_document
  attempts,    \* task -> number of retries so far (request.retries)
  loc,         \* task -> local variables of the running attempt
  result,      \* task -> return value of the last settled attempt
  foundNone    \* task -> some attempt found no record for the hash (history)

pvars == <<fs, tmpfs, records, audit, queue, arg, pc, attempts, loc, result,
           foundNone>>

VARIABLES
  now,         \* the current day (datetime.now, in days)
  lockKey,     \* Redis: the key imap_lock exists
  lockTtl,     \* Redis: the key carries an expiry
  lockOwner,   \* the tick whose SETNX created the key (0: none)
  overrun,     \* the key expired while its owner was still running (history)
  settings,    \* the mailbox configuration (app.config.settings)
  cacheFile,   \* processed_mails.json: Message-ID -> day it was processed
  mbox,        \* message -> its state on the IMAP server
  tpc,         \* tick -> position in pull_all_inboxes
  tmb,         \* tick -> the mailbox it is checking (1 or 2)
  tcache,      \* tick -> processed_emails, the dict pull_inbox works on
  tfile,       \* tick -> the Message-IDs the file held when it was loaded
  tlist,       \* tick -> msg_numbers still to handle in the current pull
  tio,         \* tick -> it has opened a mailbox connection (history)
  mailq        \* attachment tasks enqueued by the poller

mvars == <<now, lockKey, lockTtl, lockOwner, overrun, settings, cacheFile,
           mbox, tpc, tmb, tcache, tfile, tlist, tio, mailq>>

VARIABLES
  job,         \* document -> stage -> the stage's invocation for the document
  disk,        \* /tmp and <workdir>/processed: path -> content, where a file is
  remote       \* destination -> the files it has received, in order

dvars == <<job, disk, remote>>

vars == <<pvars, mvars, dvars>>

(***************************************************************************)
(* Pure helpers.                                                           *)
(***************************************************************************)
\* A slip in hash_file: the digest is taken over the name, not the bytes.
hash_file_of_name(filepath) == <<"sha256", filepath[Len(filepath)]>>

\* hash_file: the SHA-256 digest of the bytes read from filepath; equal
\* exactly for equal bytes.
hash_file(filepath) == <<"sha256", fs[filepath]>>

\* A text extraction that finds no text on any page.
NoEmbeddedText(content) == ""

\* page.get_text() over the pages of the working copy.
EmbeddedText(content) == IF content = "A" THEN "text of A" ELSE ""

\* os.path.basename / os.path.splitext on the input path.
Basename(p) == p[Len(p)]
FileExt(p) == ".pdf"

\* str(uuid.uuid4()) + file_ext: a fresh name for each attempt that copies.
NewFilename(t, a) == <<"uuid", t, a, FileExt(arg[t])>>
\* os.path.join(settings.workdir, "tmp", new_filename)
TmpPath(name) == <<"workdir", "tmp", name>>

\* os.path.getsize and mimetypes.guess_type on the input path.
FileSize(content) == <<"size of", content>>
MimeType(p) == "application/pdf"

NoRecord ==
  [id |-> 0, filehash |-> <<"none">>, original_filename |-> "",
   local_filename |-> NoPath, file_size |-> <<"size of", "">>, mime_type |-> ""]

EmptyLocal ==
  [filehash |-> <<"none">>, existing_record |-> NoRecord, new_record |-> 0,
   new_filename |-> <<>>, new_local_path |-> NoPath]

NoResult == [status |-> "none", file_id |-> 0]

\* A lookup that finds no record, so that the content is processed again.
QueryFindsNone(h) == NoRecord

\* db.query(FileRecord).filter(FileRecord.filehash == h).one_or_none()
RecordsWithHash(h) == {i \in 1..Len(records) : records[i].filehash = h}

QueryByHash(h) ==
  IF RecordsWithHash(h) = {} THEN NoRecord
  ELSE records[CHOOSE i \in RecordsWithHash(h) : TRUE]

\* A files table without the unique index on filehash.
NoUniqueIndex(h) == FALSE

\* The files table declares filehash unique: a commit that would store a
\* second row with the same digest is rejected.
UniqueViolation(h) == RecordsWithHash(h) # {}

\* log_task_progress: the file_id lookup by local_filename when only a path
\* is given.
LookupFileId(file_id, file_path) ==
  IF file_id = 0 /\ file_path # NoPath
     /\ \E i \in 1..Len(records) : records[i].local_filename = file_path
  THEN (CHOOSE i \in 1..Len(records) : records[i].local_filename = file_path)
  ELSE file_id

\* One row of processing_logs.  attempt is request.retries of the writer.
LogRow(t, task_id, step_name, status, file_id, file_path) ==
  [task_id |-> task_id, step_name |-> step_name, status |-> status,
   file_id |-> LookupFileId(file_id, file_path), attempt |-> attempts[t]]

\* A task_logger whose default status ignores the level.
StatusIgnoringLevel(level, status) ==
  IF status # "" THEN status ELSE "in_progress"

\* task_logger: the default status follows the level.
StatusOf(level, status) ==
  IF status # "" THEN status
  ELSE IF level = "error" THEN "failure"
  ELSE IF level = "warning" THEN "warning"
  ELSE "in_progress"

\* The task id the log_task wrapper reads: wrapper is the plain function,
\* which has no attribute "request".
WrapperTaskId(t) == <<"unknown_task">>
\* process_document.request.id, the id Celery gave the invocation.
RequestId(t) == <<"task", t>>

\* Rows the log_task wrapper writes before the body runs.
WrapperStart(t, step) ==
  << LogRow(t, WrapperTaskId(t), step, "pending", 0, arg[t]),
     LogRow(t, WrapperTaskId(t), step, "in_progress", 0, arg[t]) >>

\* Row the log_task wrapper writes after the body returned / raised.
WrapperSuccess(t, step) ==
  << LogRow(t, WrapperTaskId(t), step, "success", 0, arg[t]) >>
WrapperFailure(t, step) ==
  << LogRow(t, WrapperTaskId(t), step, "failure", 0, arg[t]) >>

\* task_logger called in the body with task_id = request.id.
BodyLog(t, step, level, status, file_id, file_path) ==
  << LogRow(t, RequestId(t), step, StatusOf(level, status), file_id, file_path) >>

Settled(t) == pc[t] \in {"done", "failed"}

\* Messages a task has enqueued so far.
EnqueuedBy(t) == {m \in queue : m.by = t}
Delay(t, task, args) ==
  [task |-> task, args |-> args, by |-> t, seq |-> Cardinality(EnqueuedBy(t)) + 1]

(***************************************************************************)
(* The pipeline's initial state: MaxTasks ingest tasks queued, each on     *)
(* some input path.                                                        *)
(***************************************************************************)
InitPipeline ==
  /\ fs = InputFs
  /\ tmpfs = <<>>
  /\ records = <<>>
  /\ audit = [t \in Tasks |-> <<>>]
  /\ queue = {}
  /\ arg \in [Tasks -> Paths]
  /\ pc = [t \in Tasks |-> "queued"]
  /\ attempts = [t \in Tasks |-> 0]
  /\ loc = [t \in Tasks |-> EmptyLocal]
  /\ result = [t \in Tasks |-> NoResult]
  /\ foundNone = [t \in Tasks |-> FALSE]

(***************************************************************************)
(* process_document, in the steps at which other workers can interleave.   *)
(***************************************************************************)
\* Lines 32-46: the wrapper's start rows, the existence check and the hash.
Start(t) ==
  /\ pc[t] = "queued"
  /\ UNCHANGED <<mvars, dvars>>
  /\ LET pre == WrapperStart(t, "process_document")
                \o BodyLog(t, "process_document", "info", "", 0, arg[t])
     IN IF fs[arg[t]] = Missing
        THEN /\ audit' = [audit EXCEPT ![t] = @ \o pre
                            \o BodyLog(t, "process_document", "error", "", 0, NoPath)
                            \o WrapperSuccess(t, "process_document")]
             /\ result' = [result EXCEPT ![t] = [status |-> "error", file_id |-> 0]]
             /\ pc' = [pc EXCEPT ![t] = "done"]
             /\ loc' = [loc EXCEPT ![t] = EmptyLocal]
        ELSE /\ audit' = [audit EXCEPT ![t] = @ \o pre
                            \o BodyLog(t, "compute_hash", "info", "", 0, NoPath)]
             /\ loc' = [loc EXCEPT ![t] =
                          [EmptyLocal EXCEPT !.filehash = hash_file(arg[t])]]
             /\ pc' = [pc EXCEPT ![t] = "lookup"]
             /\ UNCHANGED result
  /\ UNCHANGED <<fs, tmpfs, records, queue, arg, attempts, foundNone>>

\* Lines 49-62: the duplicate lookup.
Lookup(t) ==
  /\ pc[t] = "lookup"
  /\ UNCHANGED <<mvars, dvars>>
  /\ LET existing == QueryByHash(loc[t].filehash)
         pre == BodyLog(t, "check_duplicates", "info", "", 0, NoPath)
     IN IF existing.id # 0
        THEN /\ audit' = [audit EXCEPT ![t] = @ \o pre
                            \o BodyLog(t, "process_document", "info", "success",
                                       existing.id, NoPath)
                            \o WrapperSuccess(t, "process_document")]
             /\ loc' = [loc EXCEPT ![t].existing_record = existing]
             /\ result' = [result EXCEPT ![t] =
                             [status |-> "duplicate_file", file_id |-> existing.id]]
             /\ pc' = [pc EXCEPT ![t] = "done"]
             /\ UNCHANGED foundNone
        ELSE /\ audit' = [audit EXCEPT ![t] = @ \o pre
                            \o BodyLog(t, "create_file_record", "info", "", 0, NoPath)]
             /\ foundNone' = [foundNone EXCEPT ![t] = TRUE]
             /\ pc' = [pc EXCEPT ![t] = "insert"]
             /\ UNCHANGED <<loc, result>>
  /\ UNCHANGED <<fs, tmpfs, records, queue, arg, attempts>>

\* Lines 63-72: db.add(new_record); db.commit() with local_filename = "".
Insert(t) ==
  /\ pc[t] = "insert"
  /\ UNCHANGED <<mvars, dvars>>
  /\ IF UniqueViolation(loc[t].filehash)
     THEN \* the commit raises; the wrapper logs the failure and re-raises
          /\ audit' = [audit EXCEPT ![t] = @ \o WrapperFailure(t, "process_document")]
          /\ result' = [result EXCEPT ![t] = [status |-> "raised", file_id |-> 0]]
          /\ pc' = [pc EXCEPT ![t] = "failed"]
          /\ UNCHANGED <<records, loc>>
     ELSE /\ records' = Append(records,
                          [id |-> Len(records) + 1,
                           filehash |-> loc[t].filehash,
                           original_filename |-> Basename(arg[t]),
                           local_filename |-> NoPath,
                           file_size |-> FileSize(fs[arg[t]]),
                           mime_type |-> MimeType(arg[t])])
          /\ loc' = [loc EXCEPT ![t].new_record = Len(records) + 1]
          /\ audit' = [audit EXCEPT ![t] = @ \o
                         BodyLog(t, "copy_to_workdir", "info", "",
                                 Len(records) + 1, NoPath)]
          /\ pc' = [pc EXCEPT ![t] = "copy"]
          /\ UNCHANGED result
  /\ UNCHANGED <<fs, tmpfs, queue, arg, attempts, foundNone>>

\* Lines 76-85: shutil.copy into <workdir>/tmp under a fresh name; the copy
\* can raise an I/O error.
Copy(t) ==
  /\ pc[t] = "copy"
  /\ UNCHANGED <<mvars, dvars>>
  /\ \E ok \in BOOLEAN :
       IF ok
       THEN LET name == NewFilename(t, attempts[t])
            IN /\ tmpfs' = (TmpPath(name) :> fs[arg[t]]) @@ tmpfs
               /\ loc' = [loc EXCEPT ![t].new_filename = name,
                                     ![t].new_local_path = TmpPath(name)]
               /\ pc' = [pc EXCEPT ![t] = "update"]
               /\ UNCHANGED <<audit, result>>
       ELSE /\ audit' = [audit EXCEPT ![t] = @ \o WrapperFailure(t, "process_document")]
            /\ result' = [result EXCEPT ![t] = [status |-> "raised", file_id |-> 0]]
            /\ pc' = [pc EXCEPT ![t] = "failed"]
            /\ UNCHANGED <<tmpfs, loc>>
  /\ UNCHANGED <<fs, records, queue, arg, attempts, foundNone>>

\* An ingest stage that goes on to its successor without committing the
\* working path.
UpdateNotCommitted(t) ==
  /\ pc[t] = "update"
  /\ UNCHANGED <<mvars, dvars>>
  /\ pc' = [pc EXCEPT ![t] = "checktext"]
  /\ UNCHANGED <<fs, tmpfs, records, audit, queue, arg, attempts, loc, result,
                 foundNone>>

\* An ingest stage that renames the record after the working copy.
UpdateRenames(t) ==
  /\ pc[t] = "update"
  /\ UNCHANGED <<mvars, dvars>>
  /\ records' = [records EXCEPT ![loc[t].new_record].local_filename =
                                   loc[t].new_local_path,
                                 ![loc[t].new_record].original_filename = "uuid.pdf"]
  /\ pc' = [pc EXCEPT ![t] = "checktext"]
  /\ UNCHANGED <<fs, tmpfs, audit, queue, arg, attempts, loc, result,
                 foundNone>>

\* Lines 88-89: new_record.local_filename = new_local_path; db.commit().
Update(t) ==
  /\ pc[t] = "update"
  /\ UNCHANGED <<mvars, dvars>>
  /\ records' = [records EXCEPT ![loc[t].new_record].local_filename =
                                   loc[t].new_local_path]
  /\ pc' = [pc EXCEPT ![t] = "checktext"]
  /\ UNCHANGED <<fs, tmpfs, audit, queue, arg, attempts, loc, result,
                 foundNone>>

\* Lines 94-126: look for embedded text in the working copy and enqueue the
\* one successor; fitz.open can raise on the copy.
CheckText(t) ==
  /\ pc[t] = "checktext"
  /\ UNCHANGED <<mvars, dvars>>
  /\ LET id == loc[t].new_record
         text == EmbeddedText(tmpfs[loc[t].new_local_path])
         pre == BodyLog(t, "check_embedded_text", "info", "", id, NoPath)
     IN \E ok \in BOOLEAN :
          IF ~ok
          THEN /\ audit' = [audit EXCEPT ![t] = @ \o pre
                              \o WrapperFailure(t, "process_document")]
               /\ result' = [result EXCEPT ![t] = [status |-> "raised", file_id |-> 0]]
               /\ pc' = [pc EXCEPT ![t] = "failed"]
               /\ UNCHANGED queue
          ELSE IF text # ""
          THEN /\ audit' = [audit EXCEPT ![t] = @ \o pre
                              \o BodyLog(t, "process_document", "info", "", id, NoPath)
                              \o BodyLog(t, "extract_text_locally", "info", "", id, NoPath)
                              \o BodyLog(t, "process_document", "info", "success", id, NoPath)
                              \o BodyLog(t, "process_document", "info", "", 0, NoPath)
                              \o WrapperSuccess(t, "process_document")]
               /\ queue' = queue \cup
                    {Delay(t, "extract_metadata_with_gpt",
                           <<loc[t].new_filename, text>>)}
               /\ result' = [result EXCEPT ![t] =
                               [status |-> "Text extracted locally", file_id |-> id]]
               /\ pc' = [pc EXCEPT ![t] = "done"]
          ELSE /\ audit' = [audit EXCEPT ![t] = @ \o pre
                              \o BodyLog(t, "process_document", "info", "success", id, NoPath)
                              \o BodyLog(t, "process_document", "info", "", 0, NoPath)
                              \o WrapperSuccess(t, "process_document")]
               /\ queue' = queue \cup
                    {Delay(t, "process_with_textract", <<loc[t].new_filename>>)}
               /\ result' = [result EXCEPT ![t] =
                               [status |-> "Queued for OCR", file_id |-> id]]
               /\ pc' = [pc EXCEPT ![t] = "done"]
  /\ UNCHANGED <<fs, tmpfs, records, arg, attempts, loc, foundNone>>

\* BaseTaskWithRetry: a task that raised is run again from its start, with
\* the same task id, up to MaxRetries times.
Retry(t) ==
  /\ pc[t] = "failed"
  /\ UNCHANGED <<mvars, dvars>>
  /\ attempts[t] < MaxRetries
  /\ attempts' = [attempts EXCEPT ![t] = @ + 1]
  /\ pc' = [pc EXCEPT ![t] = "queued"]
  /\ loc' = [loc EXCEPT ![t] = EmptyLocal]
  /\ UNCHANGED <<fs, tmpfs, records, audit, queue, arg, result, foundNone>>


(***************************************************************************)
(* The mailbox poller (app/tasks/imap_tasks.py).                           *)
(***************************************************************************)
\* timedelta(days=7) of cleanup_old_entries, timedelta(days=3) of the search.
RetentionDays == 7
SearchDays == 3

\* The two mailboxes of pull_all_inboxes; the second one is the Gmail host.
Mailboxes == {1, 2}
IsGmailHost(k) == k = 2

\* The configurations the model runs under: which mailboxes are configured
\* (host, port, username and password all set) and delete_after_process.
Settings ==
  { [configured |-> <<TRUE, TRUE>>,  delete_after_process |-> <<FALSE, FALSE>>],
    [configured |-> <<FALSE, TRUE>>, delete_after_process |-> <<FALSE, TRUE>>] }

\* The messages that can arrive.  Message 1 arrives in mailbox 1 and message
\* 2 in the Gmail mailbox; both carry the same Message-ID (one mail sent to
\* both addresses, or sent again later).
Msgs == {1, 2}
MsgMailbox(m) == m
MsgId(m) == "<a@example.org>"
\* The parts email_message.walk() yields that are not multipart.
MsgParts(m) ==
  IF m = 1
  THEN << [filename |-> "invoice.pdf", content_type |-> "application/pdf",
           payload |-> "A"] >>
  ELSE << [filename |-> "invoice.pdf", content_type |-> "application/pdf",
           payload |-> "S"],
          [filename |-> "logo.png", content_type |-> "image/png",
           payload |-> "L"] >>

NoMail ==
  [present |-> FALSE, date |-> 0, unseen |-> FALSE, labelled |-> FALSE,
   deleted |-> FALSE]

EmptyCache == [i \in {} |-> 0]

\* A Redis SET in place of SETNX: the key is taken whether or not it exists.
set_always == TRUE

\* redis_client.setnx(LOCK_KEY, "locked"): true exactly when the key did not
\* exist.
setnx == ~lockKey

\* A cycle without the finally clause: an exception leaves it at once.
AfterRaiseNoFinally == "done"

\* Where control goes when an exception leaves the try block of
\* pull_all_inboxes: the finally clause.
AfterRaise == "release"

\* A cleanup that keeps the entry stamped exactly now - 7 days.
cleanup_keeps_boundary(processed_emails) ==
  [i \in {j \in DOMAIN processed_emails :
            processed_emails[j] >= now - RetentionDays}
     |-> processed_emails[i]]

\* A cleanup whose retention is shorter than the search window.
cleanup_within_search_window(processed_emails) ==
  [i \in {j \in DOMAIN processed_emails :
            processed_emails[j] > now - (SearchDays - 1)}
     |-> processed_emails[i]]

\* cleanup_old_entries: keep the entries stamped after now - 7 days.
cleanup_old_entries(processed_emails) ==
  [i \in {j \in DOMAIN processed_emails :
            processed_emails[j] > now - RetentionDays}
     |-> processed_emails[i]]

\* load_processed_emails on the file as it is.
load_processed_emails == cleanup_old_entries(cacheFile)

\* mail.search(None, '(SINCE <now - 3 days> UNSEEN)') on mailbox k, as the
\* message numbers in ascending order.
Matches(k) ==
  {m \in Msgs : /\ MsgMailbox(m) = k
                /\ mbox[m].present
                /\ mbox[m].unseen
                /\ mbox[m].date >= now - SearchDays}
RECURSIVE Ascending(_)
Ascending(S) ==
  IF S = {} THEN <<>>
  ELSE LET lo == CHOOSE x \in S : \A y \in S : x <= y
       IN <<lo>> \o Ascending(S \ {lo})
Search(k) == Ascending(Matches(k))

\* The positions of a cycle that holds the key / that is inside the try block.
Holding(p) == tpc[p] \in {"expire", "mailbox", "messages", "release"}
Running(p) == tpc[p] \in {"mailbox", "messages", "release"}

\* check_and_pull_mailbox returns: the locals of pull_inbox are gone, and the
\* cycle goes on to the next mailbox, or to the finally clause after the last.
Advance(p) ==
  /\ tcache' = [tcache EXCEPT ![p] = EmptyCache]
  /\ tfile' = [tfile EXCEPT ![p] = {}]
  /\ tlist' = [tlist EXCEPT ![p] = <<>>]
  /\ IF tmb[p] = 1
     THEN /\ tmb' = [tmb EXCEPT ![p] = 2]
          /\ tpc' = [tpc EXCEPT ![p] = "mailbox"]
     ELSE /\ tpc' = [tpc EXCEPT ![p] = "release"]
          /\ UNCHANGED tmb

\* fetch_attachments_and_enqueue: one upload_to_s3.delay per PDF part.  The
\* fields after file_path record the message (msg and date name the copy
\* that was delivered), what held when it was enqueued, and how many tasks
\* were enqueued for this file of this copy, this one included.
PdfParts(m) ==
  {i \in 1..Len(MsgParts(m)) :
     /\ MsgParts(m)[i].filename # ""
     /\ MsgParts(m)[i].content_type = "application/pdf"}
Enqueued(p, m) ==
  {[task |-> "upload_to_s3",
    file_path |-> <<"workdir", MsgParts(m)[i].filename>>,
    msg |-> m,
    date |-> mbox[m].date,
    nth |-> 1 + Cardinality({e \in mailq :
                               /\ e.msg = m
                               /\ e.date = mbox[m].date
                               /\ e.file_path = <<"workdir", MsgParts(m)[i].filename>>}),
    inFile |-> MsgId(m) \in tfile[p],
    labelled |-> mbox[m].labelled] : i \in PdfParts(m)}
\* The files the PDF parts are written to, the last part of a name winning.
RECURSIVE WriteParts(_, _, _)
WriteParts(files, m, i) ==
  IF i > Len(MsgParts(m)) THEN files
  ELSE WriteParts(
         IF i \in PdfParts(m)
         THEN (<<"workdir", MsgParts(m)[i].filename>> :> MsgParts(m)[i].payload)
              @@ files
         ELSE files, m, i + 1)

InitPoller ==
  /\ now = 0
  /\ lockKey = FALSE
  /\ lockTtl = FALSE
  /\ lockOwner = 0
  /\ overrun = FALSE
  /\ settings \in Settings
  /\ cacheFile = EmptyCache
  /\ mbox = [m \in Msgs |-> NoMail]
  /\ tpc = [p \in Ticks |-> "scheduled"]
  /\ tmb = [p \in Ticks |-> 1]
  /\ tcache = [p \in Ticks |-> EmptyCache]
  /\ tfile = [p \in Ticks |-> {}]
  /\ tlist = [p \in Ticks |-> <<>>]
  /\ tio = [p \in Ticks |-> FALSE]
  /\ mailq = {}

\* A cycle that acquires the lock inside the try block: a tick that does not
\* get the lock runs the finally clause.
SetnxInsideTry(p) ==
  /\ tpc[p] = "scheduled"
  /\ IF setnx
     THEN /\ lockKey' = TRUE
          /\ lockTtl' = FALSE
          /\ lockOwner' = p
          /\ tpc' = [tpc EXCEPT ![p] = "expire"]
     ELSE /\ tpc' = [tpc EXCEPT ![p] = "release"]
          /\ UNCHANGED <<lockKey, lockTtl, lockOwner>>
  /\ UNCHANGED <<now, overrun, settings, cacheFile, mbox, tmb, tcache, tfile,
                 tlist, tio, mailq>>
  /\ UNCHANGED <<pvars, dvars>>

\* acquire_lock, line 28: SETNX; a tick that finds the key returns at once.
Setnx(p) ==
  /\ tpc[p] = "scheduled"
  /\ IF setnx
     THEN /\ lockKey' = TRUE
          /\ lockTtl' = FALSE
          /\ lockOwner' = p
          /\ tpc' = [tpc EXCEPT ![p] = "expire"]
     ELSE /\ tpc' = [tpc EXCEPT ![p] = "skipped"]
          /\ UNCHANGED <<lockKey, lockTtl, lockOwner>>
  /\ UNCHANGED <<now, overrun, settings, cacheFile, mbox, tmb, tcache, tfile,
                 tlist, tio, mailq>>
  /\ UNCHANGED <<pvars, dvars>>

\* acquire_lock, line 30: EXPIRE sets the expiry of the key, if it exists.
Expire(p) ==
  /\ tpc[p] = "expire"
  /\ lockTtl' = lockKey
  /\ tpc' = [tpc EXCEPT ![p] = "mailbox"]
  /\ tmb' = [tmb EXCEPT ![p] = 1]
  /\ UNCHANGED <<now, lockKey, lockOwner, overrun, settings, cacheFile, mbox,
                 tcache, tfile, tlist, tio, mailq>>
  /\ UNCHANGED <<pvars, dvars>>

\* check_and_pull_mailbox and the head of pull_inbox (lines 131-172): skip a
\* mailbox with missing configuration; load the cache (an error here leaves
\* the cycle); connect and search (an error here is caught by pull_inbox).
CheckAndPull(p) ==
  /\ tpc[p] = "mailbox"
  /\ tmb[p] \in Mailboxes
  /\ IF ~settings.configured[tmb[p]]
     THEN /\ Advance(p)
          /\ UNCHANGED tio
     ELSE \E outcome \in {"ok", "load_raises", "connect_raises", "search_not_ok"} :
            IF outcome = "load_raises"
            THEN /\ tpc' = [tpc EXCEPT ![p] = AfterRaise]
                 /\ UNCHANGED <<tmb, tcache, tfile, tlist, tio>>
            ELSE /\ tio' = [tio EXCEPT ![p] = TRUE]
                 /\ IF outcome = "ok"
                    THEN /\ tcache' = [tcache EXCEPT ![p] = load_processed_emails]
                         /\ tfile' = [tfile EXCEPT ![p] = DOMAIN cacheFile]
                         /\ tlist' = [tlist EXCEPT ![p] = Search(tmb[p])]
                         /\ tpc' = [tpc EXCEPT ![p] = "messages"]
                         /\ UNCHANGED tmb
                    ELSE Advance(p)
  /\ UNCHANGED <<now, lockKey, lockTtl, lockOwner, overrun, settings, cacheFile,
                 mbox, mailq>>
  /\ UNCHANGED <<pvars, dvars>>

\* A message as the final action of lines 213-220 leaves it: flagged as
\* deleted when delete_after_process is set for mailbox k, else unread again.
FinalAction(msg, k) ==
  [msg EXCEPT !.deleted = settings.delete_after_process[k],
              !.unseen = ~settings.delete_after_process[k]]

\* A loop that applies the final action before it saves the cache.
FinalBeforeSave(msg, k) ==
  FinalAction([msg EXCEPT !.unseen = FALSE, !.labelled = @ \/ IsGmailHost(k)], k)

\* A message when the cache is about to be saved (line 211): FETCH (RFC822)
\* has marked it as seen, and the Gmail host has starred and labelled it.
BeforeSave(msg, k) ==
  [msg EXCEPT !.unseen = FALSE, !.labelled = @ \/ IsGmailHost(k)]

\* One round of the message loop of pull_inbox (lines 174-220), or its end
\* (lines 222-227) when no message number is left.  An exception leaves the
\* loop where it is raised: at the fetch, at save_processed_emails after the
\* attachments were enqueued, or at the store after the cache was saved.
HandleMessage(p) ==
  /\ tpc[p] = "messages"
  /\ IF tlist[p] = <<>>
     THEN \* expunge (when deleting), close, logout
          /\ mbox' = [m \in Msgs |->
                        IF MsgMailbox(m) = tmb[p] /\ mbox[m].deleted
                        THEN NoMail ELSE mbox[m]]
          /\ Advance(p)
          /\ UNCHANGED <<cacheFile, mailq, fs>>
     ELSE LET m == Head(tlist[p])
              id == MsgId(m)
              \* FETCH (RFC822) marks the message as seen
              fetched == [mbox[m] EXCEPT !.unseen = FALSE]
          IN \E outcome \in {"fetch_not_ok", "raises"}
                            \cup (IF mbox[m].present
                                  THEN {"ok", "save_raises", "store_raises"}
                                  ELSE {}) :
             \E labelRead \in {FALSE, IsGmailHost(tmb[p])} :
               IF outcome = "raises"
               THEN \* caught at line 229: the pull ends, the cycle goes on
                    /\ Advance(p)
                    /\ UNCHANGED <<mbox, cacheFile, mailq, fs>>
               ELSE IF outcome = "fetch_not_ok"
               THEN /\ tlist' = [tlist EXCEPT ![p] = Tail(@)]
                    /\ UNCHANGED <<mbox, tcache, tfile, cacheFile, mailq, fs,
                                   tpc, tmb>>
               ELSE IF \/ id \in DOMAIN tcache[p]
                       \/ (IsGmailHost(tmb[p]) /\ labelRead /\ mbox[m].labelled)
               THEN \* skipped: already in the cache, or already labelled
                    /\ mbox' = [mbox EXCEPT ![m] = fetched]
                    /\ tlist' = [tlist EXCEPT ![p] = Tail(@)]
                    /\ UNCHANGED <<tcache, tfile, cacheFile, mailq, fs, tpc, tmb>>
               ELSE /\ mailq' = mailq \cup Enqueued(p, m)
                    /\ fs' = WriteParts(fs, m, 1)
                    /\ IF outcome = "save_raises"
                       THEN /\ mbox' = [mbox EXCEPT ![m] = BeforeSave(@, tmb[p])]
                            /\ UNCHANGED cacheFile
                            /\ Advance(p)
                       ELSE /\ cacheFile' = (id :> now) @@ tcache[p]
                            /\ IF outcome = "store_raises"
                               THEN /\ mbox' = [mbox EXCEPT ![m] =
                                                  BeforeSave(@, tmb[p])]
                                    /\ Advance(p)
                               ELSE /\ mbox' = [mbox EXCEPT ![m] =
                                         FinalAction(BeforeSave(@, tmb[p]), tmb[p])]
                                    /\ tcache' = [tcache EXCEPT ![p] = (id :> now) @@ @]
                                    /\ tlist' = [tlist EXCEPT ![p] = Tail(@)]
                                    /\ UNCHANGED <<tfile, tpc, tmb>>
  /\ UNCHANGED <<now, lockKey, lockTtl, lockOwner, overrun, settings, tio>>
  /\ UNCHANGED <<tmpfs, records, audit, queue, arg, pc, attempts, loc, result,
                 foundNone>>
  /\ UNCHANGED dvars

\* release_lock in the finally clause (lines 116-118): DEL of the key.
Release(p) ==
  /\ tpc[p] = "release"
  /\ lockKey' = FALSE
  /\ lockTtl' = FALSE
  /\ lockOwner' = 0
  /\ tpc' = [tpc EXCEPT ![p] = "done"]
  /\ UNCHANGED <<now, overrun, settings, cacheFile, mbox, tmb, tcache, tfile,
                 tlist, tio, mailq>>
  /\ UNCHANGED <<pvars, dvars>>

\* The worker process dies inside the cycle: nothing of it runs any more and
\* its memory is gone.
Crash(p) ==
  /\ Holding(p)
  /\ tpc' = [tpc EXCEPT ![p] = "crashed"]
  /\ tcache' = [tcache EXCEPT ![p] = EmptyCache]
  /\ tfile' = [tfile EXCEPT ![p] = {}]
  /\ tlist' = [tlist EXCEPT ![p] = <<>>]
  /\ UNCHANGED <<now, lockKey, lockTtl, lockOwner, overrun, settings, cacheFile,
                 mbox, tmb, tio, mailq>>
  /\ UNCHANGED <<pvars, dvars>>

\* Redis removes a key whose expiry (LOCK_EXPIRE seconds) has passed.
LockExpire ==
  /\ lockKey
  /\ lockTtl
  /\ lockKey' = FALSE
  /\ lockTtl' = FALSE
  /\ lockOwner' = 0
  /\ overrun' = (overrun \/ (lockOwner # 0 /\ Running(lockOwner)))
  /\ UNCHANGED <<now, settings, cacheFile, mbox, tpc, tmb, tcache, tfile,
                 tlist, tio, mailq>>
  /\ UNCHANGED <<pvars, dvars>>

\* A day passes.
AdvanceDay ==
  /\ now < MaxDay
  /\ now' = now + 1
  /\ UNCHANGED <<lockKey, lockTtl, lockOwner, overrun, settings, cacheFile,
                 mbox, tpc, tmb, tcache, tfile, tlist, tio, mailq>>
  /\ UNCHANGED <<pvars, dvars>>

\* A message arrives in its mailbox, unread; in Gmail a filter or the user
\* may have labelled it.  A message can arrive again once the copy before it
\* is gone or has left the search window.
Deliver(m) ==
  /\ \/ ~mbox[m].present
     \/ mbox[m].date < now - SearchDays
  /\ \E labelled \in {FALSE, IsGmailHost(MsgMailbox(m))} :
       mbox' = [mbox EXCEPT ![m] =
                  [present |-> TRUE, date |-> now, unseen |-> TRUE,
                   labelled |-> labelled, deleted |-> FALSE]]
  /\ UNCHANGED <<now, lockKey, lockTtl, lockOwner, overrun, settings, cacheFile,
                 tpc, tmb, tcache, tfile, tlist, tio, mailq>>
  /\ UNCHANGED <<pvars, dvars>>

(***************************************************************************)
(* The stages after ingest: OCR (process_with_textract.py), classification *)
(* (extract_metadata_with_gpt.py), metadata embedding                      *)
(* (embed_metadata_into_pdf.py), finalize (finalize_document_storage.py),  *)
(* the fan-out (send_to_all.py) and the three uploads (upload_to_*.py).    *)
(***************************************************************************)
Uploads == {"upload_to_dropbox", "upload_to_nextcloud", "upload_to_paperless"}
Stages ==
  {"process_with_textract", "extract_metadata_with_gpt",
   "embed_metadata_into_pdf", "finalize_document_storage",
   "send_to_all_destinations"} \cup Uploads

\* The tasks declared with base=BaseTaskWithRetry; send_to_all_destinations
\* is a plain @celery.task.
WithRetry == Stages \ {"send_to_all_destinations"}

\* A stage that was never enqueued for the document.
NoJob ==
  [pc |-> "none", n |-> 0, retries |-> 0, args |-> <<>>, loc |-> <<>>,
   result |-> "none", log |-> <<>>]

\* The working copy the ingest stage made for document d, and what OCR
\* makes of a scanned one.
DocName(d) == <<"uuid", d, 0, ".pdf">>
\* An OCR stage that writes back the page images without a text layer.
NotSearchable(content) == "image only " \o content
Searchable(content) == "searchable " \o content
OcrText(content) == "ocr text of " \o content

\* The structures json.loads can return for a response: with a filename
\* suggestion, or without the key.
NoName == ""
Metadatas == {[filename |-> "2024-01-01_Invoice"], [filename |-> NoName]}

\* /tmp/processed_<basename>, <workdir>/processed/<base>[_<k>].pdf and .json
SysTmp(name) == <<"/tmp", "processed_", name>>
FinalPath(base, k) == <<"workdir", "processed", base, k, ".pdf">>
JsonPath(final) == [final EXCEPT ![5] = ".json"]

\* A unique_filepath that returns the plain candidate whether it exists or
\* not.
first_candidate(base) == FinalPath(base, 0)

\* unique_filepath: the plain name if it is free, else the first free
\* <base>_<counter>.
unique_filepath(base) ==
  FinalPath(base, CHOOSE k \in 0..(MaxDocs + 1) :
                    /\ FinalPath(base, k) \notin DOMAIN disk
                    /\ \A i \in 0..(k - 1) : FinalPath(base, i) \in DOMAIN disk)

\* metadata.get("filename", <stem of the local file>), extension removed:
\* the suggestion, or else the uuid of the working copy (uuid = the number
\* in its name).
SuggestedFilename(metadata, name) ==
  IF metadata.filename # NoName
  THEN [suggested |-> metadata.filename, uuid |-> 0]
  ELSE [suggested |-> NoName, uuid |-> name[2]]

\* The id Celery gave the invocation, and the one the log_task wrapper reads.
JobId(d, st) == <<"task", d, st>>
UnknownTask == <<"unknown_task">>

\* One row of processing_logs written for a stage after ingest.
JobRow(task_id, step_name, status) ==
  [task_id |-> task_id, step_name |-> step_name, status |-> status]
\* The rows of the log_task wrapper around a stage.
JobStart(step) ==
  << JobRow(UnknownTask, step, "pending"), JobRow(UnknownTask, step, "in_progress") >>
JobSuccess(step) == << JobRow(UnknownTask, step, "success") >>
JobFailure(step) == << JobRow(UnknownTask, step, "failure") >>
\* task_logger inside the body of stage st of document d.
JobLog(d, st, step, level, status) ==
  << JobRow(JobId(d, st), step, StatusOf(level, status)) >>

\* <task>.delay(args) for document d: one more invocation of the stage.
Enqueue(jobs, d, st, args) ==
  [jobs EXCEPT ![d][st] =
     IF @.pc = "none"
     THEN [NoJob EXCEPT !.pc = "queued", !.n = 1, !.args = args]
     ELSE [@ EXCEPT !.n = @ + 1]]

\* No document is past the ingest stage.
FlowOff ==
  /\ job = [d \in Docs |-> [st \in Stages |-> NoJob]]
  /\ disk = <<>>
  /\ remote = [u \in Uploads |-> <<>>]

\* The state the ingest stage leaves for each of MaxDocs new documents: the
\* record with its working path, the working copy, and the one successor
\* enqueued (process_document.py lines 63-126).
InitFlow ==
  /\ fs = InputFs
  /\ arg = [t \in Tasks |-> <<"workdir", "gone.pdf">>]
  /\ pc = [t \in Tasks |-> "queued"]
  /\ attempts = [t \in Tasks |-> 0]
  /\ loc = [t \in Tasks |-> EmptyLocal]
  /\ result = [t \in Tasks |-> NoResult]
  /\ foundNone = [t \in Tasks |-> FALSE]
  /\ audit = [t \in Tasks |-> <<>>]
  /\ queue = {}
  /\ \E content \in [Docs -> Contents] :
       /\ records = [d \in Docs |->
                       [id |-> d, filehash |-> <<"sha256", content[d], d>>,
                        original_filename |-> "in.pdf",
                        local_filename |-> TmpPath(DocName(d)),
                        file_size |-> FileSize(content[d]),
                        mime_type |-> "application/pdf"]]
       /\ tmpfs = [q \in {TmpPath(DocName(d)) : d \in Docs} |-> content[q[3][2]]]
       /\ job = [d \in Docs |->
                   IF EmbeddedText(content[d]) # ""
                   THEN [st \in Stages |->
                           IF st = "extract_metadata_with_gpt"
                           THEN [NoJob EXCEPT !.pc = "queued", !.n = 1,
                                   !.args = <<DocName(d), EmbeddedText(content[d])>>]
                           ELSE NoJob]
                   ELSE [st \in Stages |->
                           IF st = "process_with_textract"
                           THEN [NoJob EXCEPT !.pc = "queued", !.n = 1,
                                   !.args = <<DocName(d)>>]
                           ELSE NoJob]]
  /\ disk = <<>>
  /\ remote = [u \in Uploads |-> <<>>]
  /\ InitPoller
  /\ settings.configured = <<TRUE, TRUE>>

\* What is in the job slot and what stays: the other variables of a step of
\* a stage after ingest.
FlowFrame ==
  /\ UNCHANGED <<fs, audit, queue, arg, pc, attempts, loc, result, foundNone>>
  /\ UNCHANGED mvars

\* The invocation of stage st for document d settles at position p with
\* result r, having written rows to the audit log.
Settle(jobs, d, st, p, r, rows) ==
  [jobs EXCEPT ![d][st].pc = p, ![d][st].result = r,
               ![d][st].log = @ \o rows]

\* process_with_textract: raise when the working copy is missing or the OCR
\* provider fails; else overwrite the working copy with the searchable PDF
\* and enqueue classification with the recognised text.
Ocr(d) ==
  LET st == "process_with_textract"
      name == job[d][st].args[1]
      path == TmpPath(name)
      pre == JobStart(st) \o JobLog(d, st, st, "info", "")
  IN /\ job[d][st].pc = "queued"
     /\ IF path \notin DOMAIN tmpfs
        THEN /\ job' = Settle(job, d, st, "failed", "raised",
                         pre \o JobLog(d, st, st, "error", "") \o JobFailure(st))
             /\ UNCHANGED tmpfs
        ELSE \E ok \in BOOLEAN :
               IF ok
               THEN /\ tmpfs' = [tmpfs EXCEPT ![path] = Searchable(@)]
                    /\ job' = Enqueue(
                         Settle(job, d, st, "done", "ok",
                           pre \o JobLog(d, st, "azure_document_intelligence", "info", "")
                               \o JobLog(d, st, "azure_document_intelligence", "info", "")
                               \o JobLog(d, st, "retrieve_pdf", "info", "")
                               \o JobLog(d, st, "extract_text", "info", "")
                               \o JobLog(d, st, st, "info", "success")
                               \o JobLog(d, st, st, "info", "")
                               \o JobSuccess(st)),
                         d, "extract_metadata_with_gpt",
                         <<name, OcrText(tmpfs[path])>>)
               ELSE /\ job' = Settle(job, d, st, "failed", "raised",
                         pre \o JobLog(d, st, "azure_document_intelligence", "info", "")
                             \o JobLog(d, st, st, "error", "")
                             \o JobFailure(st))
                    /\ UNCHANGED tmpfs
     /\ UNCHANGED <<records, disk, remote>>
     /\ FlowFrame

NoJson == "no json"
\* An extraction that takes any response for JSON.
extract_json_lenient(content) == "json"

\* extract_json_from_text on the response: the JSON text, or nothing.
extract_json_from_text(content) ==
  IF content.fenced # NoJson THEN content.fenced
  ELSE IF content.braces # NoJson THEN content.braces
  ELSE NoJson

\* The responses the language model can give: a fenced block, a bare object
\* between braces, braces around something that is no JSON, or neither.
Responses ==
  {[fenced |-> "json", braces |-> "json"], [fenced |-> NoJson, braces |-> "json"],
   [fenced |-> "not json", braces |-> NoJson],
   [fenced |-> NoJson, braces |-> "not json"], [fenced |-> NoJson, braces |-> NoJson]}

\* No response: the request to the model raised.
NoResponse == [fenced |-> "no response", braces |-> "no response"]
\* A response from which a structure was parsed.
Parsed == [fenced |-> "parsed", braces |-> "parsed"]
\* What the invocation is remembered to have received: the response itself
\* unless it holds a JSON object.
Received(content) ==
  IF content.fenced = "json" \/ (content.fenced = NoJson /\ content.braces = "json")
  THEN Parsed ELSE content

\* extract_metadata_with_gpt: every failure is logged and turned into the
\* empty result; a parsed structure is enqueued for embedding, and a failure
\* of the record lookup after that still returns the empty result.
Classify(d) ==
  LET st == "extract_metadata_with_gpt"
      step == "extract_metadata"
      name == job[d][st].args[1]
      text == job[d][st].args[2]
      pre == JobStart(step) \o JobLog(d, st, step, "info", "")
                            \o JobLog(d, st, step, "info", "")
      received == pre \o JobLog(d, st, step, "info", "")
      got(content) == [job EXCEPT ![d][st].loc = Received(content)]
      empty(content, rows) ==
        Settle(got(content), d, st, "done", "{}",
          rows \o JobLog(d, st, step, "error", "") \o JobSuccess(step))
  IN /\ job[d][st].pc = "queued"
     /\ \/ \* the request to the model raises
           job' = empty(NoResponse, pre)
        \/ \E content \in Responses :
             LET json_text == extract_json_from_text(content)
             IN IF json_text = NoJson
                THEN job' = empty(content, received)
                ELSE IF json_text # "json"
                THEN \* json.loads raises
                     job' = empty(content, received)
                ELSE \E metadata \in Metadatas, lookup_ok \in BOOLEAN :
                       LET rows == received \o JobLog(d, st, step, "info", "")
                                            \o JobLog(d, st, step, "info", "")
                           found == \E i \in 1..Len(records) :
                                      LET lf == records[i].local_filename
                                      IN lf # NoPath /\ lf[Len(lf)] = name
                       IN job' = Enqueue(
                            IF lookup_ok
                            THEN Settle(got(content), d, st, "done", "metadata",
                                   rows \o JobLog(d, st, step,
                                              IF found THEN "info" ELSE "warning", "")
                                        \o JobSuccess(step))
                            ELSE Settle(got(content), d, st, "done", "{}",
                                   rows \o JobLog(d, st, step, "error", "")
                                        \o JobSuccess(step)),
                            d, "embed_metadata_into_pdf", <<name, text, metadata>>)
     /\ UNCHANGED <<tmpfs, records, disk, remote>>
     /\ FlowFrame

\* What fitz writes into the working copy: the PDF with the metadata set.
WithMetadata(content, metadata) ==
  "pdf with " \o metadata.filename \o " " \o content

\* embed_metadata_into_pdf, lines 60-77: find the file (the bare name is
\* looked up under <workdir>/tmp), return an error when it is not there,
\* and copy it to /tmp; the copy is outside the try block.
EmbedStart(d) ==
  LET st == "embed_metadata_into_pdf"
      step == "embed_metadata"
      name == job[d][st].args[1]
      alt_path == TmpPath(name)
  IN /\ job[d][st].pc = "queued"
     /\ IF alt_path \notin DOMAIN tmpfs
        THEN /\ job' = Settle(job, d, st, "done", "error",
                         JobStart(step) \o JobLog(d, st, step, "error", "")
                                        \o JobSuccess(step))
             /\ UNCHANGED disk
        ELSE \E ok \in BOOLEAN :
               IF ok
               THEN /\ disk' = (SysTmp(name) :> tmpfs[alt_path]) @@ disk
                    /\ job' = Settle(
                         [job EXCEPT ![d][st].loc =
                            [original_file |-> alt_path,
                             processed_file |-> SysTmp(name),
                             final_file_path |-> NoPath]],
                         d, st, "save", "none",
                         JobStart(step) \o JobLog(d, st, step, "info", "")
                                        \o JobLog(d, st, step, "info", ""))
               ELSE /\ job' = Settle(job, d, st, "failed", "raised",
                         JobStart(step) \o JobLog(d, st, step, "info", "")
                                        \o JobFailure(step))
                    /\ UNCHANGED disk
     /\ UNCHANGED <<tmpfs, records, remote>>
     /\ FlowFrame

\* Lines 80-105: set the metadata in the copy and pick the final path; an
\* exception is caught at line 136 and returned as an error.
EmbedSave(d) ==
  LET st == "embed_metadata_into_pdf"
      step == "embed_metadata"
      name == job[d][st].args[1]
      metadata == job[d][st].args[3]
      processed_file == job[d][st].loc.processed_file
  IN /\ job[d][st].pc = "save"
     /\ \E ok \in BOOLEAN :
          IF ok /\ processed_file \in DOMAIN disk
          THEN /\ disk' = [disk EXCEPT ![processed_file] = WithMetadata(@, metadata)]
               /\ job' = Settle(
                    [job EXCEPT ![d][st].loc.final_file_path =
                       unique_filepath(SuggestedFilename(metadata, name))],
                    d, st, "move", "none",
                    JobLog(d, st, step, "info", "") \o JobLog(d, st, step, "info", ""))
          ELSE /\ job' = Settle(job, d, st, "done", "error",
                    JobLog(d, st, step, "info", "")
                      \o JobLog(d, st, step, "error", "") \o JobSuccess(step))
               /\ UNCHANGED disk
     /\ UNCHANGED <<tmpfs, records, remote>>
     /\ FlowFrame

\* Lines 108-122: move the copy to its final path, write the JSON next to
\* it and enqueue finalize; an exception is caught and returned as an error.
EmbedMove(d) ==
  LET st == "embed_metadata_into_pdf"
      step == "embed_metadata"
      metadata == job[d][st].args[3]
      l == job[d][st].loc
      moved == (l.final_file_path :> disk[l.processed_file])
               @@ [q \in DOMAIN disk \ {l.processed_file} |-> disk[q]]
      persisted == (JsonPath(l.final_file_path) :> metadata) @@ moved
      error(rows) == Settle(job, d, st, "done", "error",
                       rows \o JobLog(d, st, step, "error", "") \o JobSuccess(step))
  IN /\ job[d][st].pc = "move"
     /\ \E outcome \in {"ok", "move_raises", "persist_raises"} :
          IF outcome = "move_raises" \/ l.processed_file \notin DOMAIN disk
          THEN /\ job' = error(<<>>)
               /\ UNCHANGED disk
          ELSE IF outcome = "persist_raises"
          THEN /\ disk' = moved
               /\ job' = error(JobLog(d, st, step, "info", ""))
          ELSE /\ disk' = persisted
               /\ job' = Enqueue(
                    Settle(job, d, st, "cleanup", "none",
                      JobLog(d, st, step, "info", "")
                        \o JobLog(d, st, step, "info", "")
                        \o JobLog(d, st, step, "info", "")),
                    d, "finalize_document_storage",
                    <<l.original_file, l.final_file_path, metadata>>)
     /\ UNCHANGED <<tmpfs, records, remote>>
     /\ FlowFrame

\* Lines 124-134, after finalize was enqueued: delete the original under
\* <workdir>/tmp if it is still there; a failure to delete is a warning.
EmbedCleanup(d) ==
  LET st == "embed_metadata_into_pdf"
      step == "embed_metadata"
      l == job[d][st].loc
  IN /\ job[d][st].pc = "cleanup"
     /\ IF l.original_file \notin DOMAIN tmpfs
        THEN /\ job' = Settle(job, d, st, "done", "ok", JobSuccess(step))
             /\ UNCHANGED tmpfs
        ELSE \E deleted \in BOOLEAN :
               /\ tmpfs' = IF deleted
                           THEN [q \in DOMAIN tmpfs \ {l.original_file} |-> tmpfs[q]]
                           ELSE tmpfs
               /\ job' = Settle(job, d, st, "done", "ok",
                           JobLog(d, st, step,
                                  IF deleted THEN "info" ELSE "warning", "")
                             \o JobSuccess(step))
     /\ UNCHANGED <<records, disk, remote>>
     /\ FlowFrame

\* A finalize stage that ends without enqueuing the fan-out.
FinalizeOnly(d) ==
  LET st == "finalize_document_storage"
  IN /\ job[d][st].pc = "queued"
     /\ job' = Settle(job, d, st, "done", "Completed", JobSuccess("finalize_storage"))
     /\ UNCHANGED <<tmpfs, records, disk, remote>>
     /\ FlowFrame

\* finalize_document_storage: enqueue the fan-out for the processed file.
Finalize(d) ==
  LET st == "finalize_document_storage"
      step == "finalize_storage"
      processed_file == job[d][st].args[2]
  IN /\ job[d][st].pc = "queued"
     /\ job' = Enqueue(
          Settle(job, d, st, "done", "Completed",
            JobStart(step) \o JobLog(d, st, step, "info", "")
                           \o JobLog(d, st, step, "info", "success")
                           \o JobSuccess(step)),
          d, "send_to_all_destinations", <<processed_file>>)
     /\ UNCHANGED <<tmpfs, records, disk, remote>>
     /\ FlowFrame

\* A fan-out that leaves Paperless out.
FanOutTwo == {"upload_to_dropbox", "upload_to_nextcloud"}

\* The tasks send_to_all_destinations calls .delay on (lines 18-20).
FanOut == Uploads

RECURSIVE EnqueueAll(_, _, _, _)
EnqueueAll(jobs, d, sts, args) ==
  IF sts = {} THEN jobs
  ELSE LET st == CHOOSE x \in sts : TRUE
       IN EnqueueAll(Enqueue(jobs, d, st, args), d, sts \ {st}, args)

\* An aggregator that waits for the three uploads and reports what became
\* of them.
SendAllAwaits(d) ==
  LET st == "send_to_all_destinations"
      file_path == job[d][st].args[1]
  IN /\ \/ /\ job[d][st].pc = "queued"
           /\ job' = EnqueueAll(
                [job EXCEPT ![d][st].pc = "waiting",
                            ![d][st].log = @ \o JobStart(st)],
                d, FanOut, <<file_path>>)
        \/ /\ job[d][st].pc = "waiting"
           /\ \A u \in FanOut : job[d][u].pc \in {"done", "failed"}
           /\ job' = Settle(
                [job EXCEPT ![d][st].loc =
                   [task_ids |-> [u \in FanOut |-> JobId(d, u)]]],
                d, st, "done",
                IF \A u \in FanOut : job[d][u].pc = "done"
                THEN "All uploads completed" ELSE "Some uploads failed",
                JobSuccess(st))
     /\ UNCHANGED <<tmpfs, records, disk, remote>>
     /\ FlowFrame

\* send_to_all_destinations: three .delay calls, none of them awaited; the
\* ids of the three tasks are returned with the status.
SendAll(d) ==
  LET st == "send_to_all_destinations"
      file_path == job[d][st].args[1]
  IN /\ job[d][st].pc = "queued"
     /\ job' = EnqueueAll(
          Settle([job EXCEPT ![d][st].loc =
                    [task_ids |-> [u \in FanOut |-> JobId(d, u)]]],
                 d, st, "done", "All upload tasks enqueued",
            JobStart(st) \o JobLog(d, st, "send_to_all", "info", "")
                         \o JobLog(d, st, "send_to_all", "info", "success")
                         \o JobSuccess(st)),
          d, FanOut, <<file_path>>)
     /\ UNCHANGED <<tmpfs, records, disk, remote>>
     /\ FlowFrame

\* The step names the upload stages log under.
UploadStep(u) ==
  CASE u = "upload_to_dropbox" -> "dropbox_upload"
    [] u = "upload_to_nextcloud" -> "nextcloud_upload"
    [] OTHER -> "paperless_upload"

\* upload_to_dropbox, upload_to_nextcloud, upload_to_paperless: raise when
\* the file is missing and when the transfer fails; else the destination has
\* the file, and the Paperless upload goes on to poll the status of the
\* task Paperless created for the post.
Upload(d, u) ==
  LET file_path == job[d][u].args[1]
      step == UploadStep(u)
      raised(rows) == Settle(job, d, u, "failed", "raised",
                        JobStart(u) \o rows \o JobFailure(u))
  IN /\ job[d][u].pc = "queued"
     /\ IF file_path \notin DOMAIN disk
        THEN /\ job' = raised(JobLog(d, u, step, "error", ""))
             /\ UNCHANGED remote
        ELSE \E outcome \in {"ok", "transfer_fails"} :
               IF outcome = "transfer_fails"
               THEN /\ job' = raised(JobLog(d, u, step, "info", "")
                                      \o JobLog(d, u, step, "error", "failure"))
                    /\ UNCHANGED remote
               ELSE /\ remote' = [remote EXCEPT ![u] = Append(@, file_path)]
                    /\ IF u = "upload_to_paperless"
                       THEN job' = Settle(
                              [job EXCEPT ![d][u].loc =
                                 [attempts |-> 0, requests |-> 0, last |-> "none"]],
                              d, u, "poll", "none",
                              JobStart(u) \o JobLog(d, u, step, "info", "")
                                          \o JobLog(d, u, step, "info", "")
                                          \o JobLog(d, u, step, "info", ""))
                       ELSE job' = Settle(job, d, u, "done", "Completed",
                                     JobStart(u) \o JobLog(d, u, step, "info", "")
                                                 \o JobLog(d, u, step, "info", "success")
                                                 \o JobSuccess(u))
     /\ UNCHANGED <<tmpfs, records, disk>>
     /\ FlowFrame

\* upload_to_paperless.py line 17.
POLL_MAX_ATTEMPTS == 10

\* What one status request can bring: the request fails, the list of tasks
\* is empty, the task is in a status that is not terminal, SUCCESS with or
\* without a related document, FAILURE.
PollAnswers ==
  {"request_fails", "empty", "pending", "success", "success_no_document",
   "failure"}

\* A poll in which a failed request is not counted.
CountsUnlessRequestFails(answer) == answer \in {"empty", "pending"}

\* The answers after which the loop adds one to attempts and goes round
\* again (lines 56-57 and 88).
CountsAgainstBudget(answer) == answer \in {"request_fails", "empty", "pending"}

\* poll_task_for_document_id, one turn of its loop: one status request, or
\* the timeout once attempts has reached POLL_MAX_ATTEMPTS.  answers is what
\* Paperless can answer in the run at hand.
PaperlessPoll(d, answers) ==
  LET u == "upload_to_paperless"
      step == "paperless_poll"
      l == job[d][u].loc
      asked(answer) == [job EXCEPT ![d][u].loc.requests = @ + 1,
                                   ![d][u].loc.last = answer]
      polling == JobLog(d, u, step, "info", "")
  IN /\ job[d][u].pc = "poll"
     /\ IF l.attempts < POLL_MAX_ATTEMPTS
        THEN \E answer \in answers :
               IF CountsAgainstBudget(answer)
               THEN job' = Settle(
                      [asked(answer) EXCEPT ![d][u].loc.attempts = @ + 1],
                      d, u, "poll", "none",
                      polling \o (CASE answer = "request_fails" ->
                                         JobLog(d, u, step, "warning", "")
                                    [] answer = "pending" ->
                                         JobLog(d, u, step, "info", "")
                                    [] OTHER -> <<>>))
               ELSE IF answer = "success"
               THEN job' = Settle(asked(answer), d, u, "done", "Completed",
                             polling \o JobLog(d, u, step, "info", "success")
                                     \o JobLog(d, u, "paperless_upload", "info", "success")
                                     \o JobSuccess(u))
               ELSE IF answer = "failure"
               THEN job' = Settle(asked(answer), d, u, "failed", "runtime_error",
                             polling \o JobLog(d, u, step, "error", "failure")
                                     \o JobFailure(u))
               ELSE IF answer = "success_no_document"
               THEN job' = Settle(asked(answer), d, u, "failed", "runtime_error",
                             polling \o JobFailure(u))
               ELSE \* a failed request that the loop does not count
                    job' = Settle(asked(answer), d, u, "poll", "none",
                             polling \o JobLog(d, u, step, "warning", ""))
        ELSE job' = Settle(job, d, u, "failed", "timeout",
                      JobLog(d, u, step, "error", "failure") \o JobFailure(u))
     /\ UNCHANGED <<tmpfs, records, disk, remote>>
     /\ FlowFrame

\* A retry policy for which no error is terminal.
NothingTerminal(r) == FALSE

\* The errors the retry policy does not re-attempt: the timeout of a
\* destination status poll.
Terminal(r) == r = "timeout"

\* BaseTaskWithRetry on the stages after ingest: a stage that raised runs
\* again from its start, up to MaxRetries times, unless the error is
\* terminal.
JobRetry(d, st) ==
  /\ st \in WithRetry
  /\ job[d][st].pc = "failed"
  /\ ~Terminal(job[d][st].result)
  /\ job[d][st].retries < MaxRetries
  /\ job' = [job EXCEPT ![d][st].pc = "queued", ![d][st].retries = @ + 1,
                        ![d][st].loc = <<>>]
  /\ UNCHANGED <<tmpfs, records, disk, remote>>
  /\ FlowFrame

(***************************************************************************)
(* The specifications.  Spec runs the ingest stage with the poller off;    *)
(* SpecPoller runs the poller with no ingest task submitted.               *)
(***************************************************************************)
PollerOff ==
  /\ InitPoller
  /\ settings.configured = <<TRUE, TRUE>>

PipelineOff ==
  /\ InitPipeline
  /\ arg = [t \in Tasks |-> <<"workdir", "gone.pdf">>]

Next ==
  \/ \E t \in Tasks : Start(t)
  \/ \E t \in Tasks : Lookup(t)
  \/ \E t \in Tasks : Insert(t)
  \/ \E t \in Tasks : Copy(t)
  \/ \E t \in Tasks : Update(t)
  \/ \E t \in Tasks : CheckText(t)
  \/ \E t \in Tasks : Retry(t)

Init == InitPipeline /\ PollerOff /\ FlowOff

Spec == Init /\ [][Next]_vars

InitP == PipelineOff /\ InitPoller /\ FlowOff

\* The ticks of one day, with expiry of the key and crashes of the worker.
NextPoller ==
  \/ \E p \in Ticks : Setnx(p)
  \/ \E p \in Ticks : Expire(p)
  \/ \E p \in Ticks : CheckAndPull(p)
  \/ \E p \in Ticks : HandleMessage(p)
  \/ \E p \in Ticks : Release(p)
  \/ \E p \in Ticks : Crash(p)
  \/ LockExpire
  \/ \E m \in Msgs : Deliver(m)

SpecPoller == InitP /\ [][NextPoller]_vars

\* The ticks of several days, each cycle ending within its lock's expiry.
NextMail ==
  \/ \E p \in Ticks : Setnx(p)
  \/ \E p \in Ticks : Expire(p)
  \/ \E p \in Ticks : CheckAndPull(p)
  \/ \E p \in Ticks : HandleMessage(p)
  \/ \E p \in Ticks : Release(p)
  \/ AdvanceDay
  \/ \E m \in Msgs : Deliver(m)

SpecMail == InitP /\ [][NextMail]_vars

(***************************************************************************)
(* The seen-mail cache on its own: any cache file, on any day, loaded and  *)
(* saved again.                                                            *)
(***************************************************************************)
CacheIds == {"<a@example.org>", "<b@example.org>"}

CacheFiles ==
  UNION {[ids -> 0..MaxDay] : ids \in SUBSET CacheIds}

InitCache ==
  /\ PipelineOff
  /\ FlowOff
  /\ now \in 0..MaxDay
  /\ cacheFile \in CacheFiles
  /\ lockKey = FALSE
  /\ lockTtl = FALSE
  /\ lockOwner = 0
  /\ overrun = FALSE
  /\ settings \in {c \in Settings : c.configured[1]}
  /\ mbox = [m \in Msgs |-> NoMail]
  /\ tpc = [p \in Ticks |-> "scheduled"]
  /\ tmb = [p \in Ticks |-> 1]
  /\ tcache = [p \in Ticks |-> EmptyCache]
  /\ tfile = [p \in Ticks |-> {}]
  /\ tlist = [p \in Ticks |-> <<>>]
  /\ tio = [p \in Ticks |-> FALSE]
  /\ mailq = {}

\* load_processed_emails followed by save_processed_emails of what was
\* loaded (lines 43-60).
LoadSave(p) ==
  /\ tfile' = [tfile EXCEPT ![p] = DOMAIN cacheFile]
  /\ tcache' = [tcache EXCEPT ![p] = load_processed_emails]
  /\ cacheFile' = load_processed_emails
  /\ UNCHANGED <<now, lockKey, lockTtl, lockOwner, overrun, settings, mbox,
                 tpc, tmb, tlist, tio, mailq>>
  /\ UNCHANGED <<pvars, dvars>>

NextCache ==
  \/ \E p \in Ticks : LoadSave(p)
  \/ AdvanceDay

SpecCache == InitCache /\ [][NextCache]_vars

(***************************************************************************)
(* The stages after ingest.                                                *)
(***************************************************************************)
\* The stages of each document from the ingest stage's successor to
\* finalize, which enqueues the fan-out.
NextFlow ==
  \/ \E d \in Docs : Ocr(d)
  \/ \E d \in Docs : Classify(d)
  \/ \E d \in Docs : EmbedStart(d)
  \/ \E d \in Docs : EmbedSave(d)
  \/ \E d \in Docs : EmbedMove(d)
  \/ \E d \in Docs : EmbedCleanup(d)
  \/ \E d \in Docs : Finalize(d)
  \/ \E d \in Docs, st \in Stages : JobRetry(d, st)

SpecFlow == InitFlow /\ [][NextFlow]_vars

\* The state finalize_document_storage leaves for one document: the
\* processed file and its JSON in <workdir>/processed, and the fan-out
\* enqueued for it (embed_metadata_into_pdf.py lines 108-120,
\* finalize_document_storage.py line 21).
InitFan ==
  /\ PipelineOff
  /\ InitPoller
  /\ settings.configured = <<TRUE, TRUE>>
  /\ \E content \in Contents, metadata \in Metadatas :
       LET final == FinalPath(SuggestedFilename(metadata, DocName(1)), 0)
       IN /\ disk = (final :> WithMetadata(content, metadata))
                    @@ (JsonPath(final) :> metadata)
          /\ job = [d \in Docs |-> [st \in Stages |->
                      IF d = 1 /\ st = "send_to_all_destinations"
                      THEN [NoJob EXCEPT !.pc = "queued", !.n = 1,
                                         !.args = <<final>>]
                      ELSE NoJob]]
  /\ remote = [u \in Uploads |-> <<>>]

\* The answers of a Paperless that is reachable and knows the task: a status
\* that is not terminal, or one of the terminal ones.
StatusAnswers == PollAnswers \ {"request_fails", "empty"}
\* The answers of a Paperless that has finished the task when it is first
\* asked.
TerminalAnswers == StatusAnswers \ {"pending"}

\* The fan-out of one finalized document and its three uploads.
NextFan ==
  \/ \E d \in Docs : SendAll(d)
  \/ \E d \in Docs, u \in Uploads : Upload(d, u)
  \/ \E d \in Docs : PaperlessPoll(d, TerminalAnswers)
  \/ \E d \in Docs, st \in Stages : JobRetry(d, st)

SpecFan == InitFan /\ [][NextFan]_vars

\* The state send_to_all_destinations leaves for one finalized document:
\* the three uploads enqueued with its path (send_to_all.py lines 18-20).
InitPaperless ==
  /\ PipelineOff
  /\ InitPoller
  /\ settings.configured = <<TRUE, TRUE>>
  /\ \E content \in Contents, metadata \in Metadatas :
       LET final == FinalPath(SuggestedFilename(metadata, DocName(1)), 0)
       IN /\ disk = (final :> WithMetadata(content, metadata))
                    @@ (JsonPath(final) :> metadata)
          /\ job = [d \in Docs |-> [st \in Stages |->
                      IF d = 1 /\ st \in Uploads
                      THEN [NoJob EXCEPT !.pc = "queued", !.n = 1,
                                         !.args = <<final>>]
                      ELSE NoJob]]
  /\ remote = [u \in Uploads |-> <<>>]

\* The Paperless upload of that document against a Paperless that is
\* reachable, with the retries of the stage.
NextPaperless ==
  \/ \E d \in Docs : Upload(d, "upload_to_paperless")
  \/ \E d \in Docs : PaperlessPoll(d, StatusAnswers)
  \/ \E d \in Docs : JobRetry(d, "upload_to_paperless")

SpecPaperless == InitPaperless /\ [][NextPaperless]_vars

\* One invocation of the Paperless upload, with every answer a status
\* request can bring.
NextPoll ==
  \/ \E d \in Docs : Upload(d, "upload_to_paperless")
  \/ \E d \in Docs : PaperlessPoll(d, PollAnswers)

SpecPoll == InitPaperless /\ [][NextPoll]_vars

\* A logging helper that keeps one row per task and step: a call for a step
\* that has a row replaces it.
log_task_upsert(log, row, ok) ==
  IF ~ok THEN log
  ELSE IF \E i \in 1..Len(log) : log[i].step_name = row.step_name
  THEN [i \in 1..Len(log) |->
          IF log[i].step_name = row.step_name THEN row ELSE log[i]]
  ELSE Append(log, row)

\* log_task_progress (utils.py lines 43-64): db.add and db.commit of one
\* new ProcessingLog row; an exception of the session is logged to the
\* console and swallowed, and then nothing was written.
log_task_progress(log, row, ok) ==
  IF ok THEN Append(log, row) ELSE log

\* The statuses a row is written with.
Statuses == {"in_progress", "success", "failure"}

\* One call of the logging helper on behalf of task t, from whichever
\* stage or wrapper: the write succeeds or fails.
LogCall(t) ==
  /\ Len(audit[t]) < MaxLog
  /\ \E status \in Statuses, ok \in BOOLEAN :
       audit' = [audit EXCEPT ![t] =
                   log_task_progress(@,
                     LogRow(t, RequestId(t), "process_document", status, 0, NoPath),
                     ok)]
  /\ UNCHANGED <<fs, tmpfs, records, queue, arg, pc, attempts, loc, result,
                 foundNone>>
  /\ UNCHANGED <<mvars, dvars>>

\* The logging helper alone, called any number of times up to MaxLog for
\* each task.
InitAudit == PipelineOff /\ PollerOff /\ FlowOff
NextAudit == \E t \in Tasks : LogCall(t)
SpecAudit == InitAudit /\ [][NextAudit]_vars

(***************************************************************************)
(* A stage run through the log_task wrapper (utils.py lines 99-131), one   *)
(* audit write at a time.  Every write goes through log_task_progress and  *)
(* can fail.                                                               *)
(***************************************************************************)
\* A logging helper that lets the exception of a failed write through.
LogWriteRaising(log, row, ok) ==
  [log |-> log_task_progress(log, row, ok),
   id |-> IF ok THEN Len(log) + 1 ELSE 0,
   raised |-> ~ok]

\* What a caller of log_task_progress gets (lines 41-64): the log after the
\* call, the id of the new entry or none (0), and whether an exception
\* reached the caller.  The whole body is inside try / except Exception,
\* which returns None.
LogWrite(log, row, ok) ==
  [log |-> log_task_progress(log, row, ok),
   id |-> IF ok THEN Len(log) + 1 ELSE 0,
   raised |-> FALSE]

\* What the wrapped function does on its own account.
BodyOutcomes == {"returns", "raises"}
RaisedResult == [status |-> "raised", file_id |-> 0]

\* Line 112: the "pending" entry, written outside the try block.
LogPending(t) ==
  /\ pc[t] = "queued"
  /\ \E ok \in BOOLEAN :
       LET w == LogWrite(audit[t], WrapperStart(t, "process_document")[1], ok)
       IN /\ audit' = [audit EXCEPT ![t] = w.log]
          /\ pc' = [pc EXCEPT ![t] = IF w.raised THEN "failed" ELSE "started"]
  /\ UNCHANGED <<fs, tmpfs, records, queue, arg, attempts, loc, result,
                 foundNone>>
  /\ UNCHANGED <<mvars, dvars>>

\* Line 116: the "in_progress" entry, inside the try block.
LogInProgress(t) ==
  /\ pc[t] = "started"
  /\ \E ok \in BOOLEAN :
       LET w == LogWrite(audit[t], WrapperStart(t, "process_document")[2], ok)
       IN /\ audit' = [audit EXCEPT ![t] = w.log]
          /\ pc' = [pc EXCEPT ![t] = IF w.raised THEN "raised" ELSE "body"]
  /\ UNCHANGED <<fs, tmpfs, records, queue, arg, attempts, loc, result,
                 foundNone>>
  /\ UNCHANGED <<mvars, dvars>>

\* Line 119: func(*args, **kwargs).  The body writes one entry through
\* task_logger (lines 132-177) and then either enqueues its successor and
\* returns, or raises.
RunBody(t) ==
  /\ pc[t] = "body"
  /\ \E outcome \in BodyOutcomes, ok \in BOOLEAN :
       LET w == LogWrite(audit[t],
                         BodyLog(t, "process_document", "info", "", 0, arg[t])[1],
                         ok)
       IN /\ audit' = [audit EXCEPT ![t] = w.log]
          /\ IF w.raised
             THEN /\ pc' = [pc EXCEPT ![t] = "raised"]
                  /\ UNCHANGED <<queue, result>>
             ELSE IF outcome = "returns"
             THEN /\ queue' = queue \cup
                       {Delay(t, "process_with_textract", <<arg[t]>>)}
                  /\ result' = [result EXCEPT ![t] =
                                  [status |-> "Queued for OCR", file_id |-> 0]]
                  /\ pc' = [pc EXCEPT ![t] = "returned"]
             ELSE /\ result' = [result EXCEPT ![t] = RaisedResult]
                  /\ pc' = [pc EXCEPT ![t] = "raised"]
                  /\ UNCHANGED queue
  /\ UNCHANGED <<fs, tmpfs, records, arg, attempts, loc, foundNone>>
  /\ UNCHANGED <<mvars, dvars>>

\* Lines 122-124: the "success" entry, then the wrapper returns result.
LogSuccess(t) ==
  /\ pc[t] = "returned"
  /\ \E ok \in BOOLEAN :
       LET w == LogWrite(audit[t], WrapperSuccess(t, "process_document")[1], ok)
       IN /\ audit' = [audit EXCEPT ![t] = w.log]
          /\ pc' = [pc EXCEPT ![t] = IF w.raised THEN "raised" ELSE "done"]
  /\ UNCHANGED <<fs, tmpfs, records, queue, arg, attempts, loc, result,
                 foundNone>>
  /\ UNCHANGED <<mvars, dvars>>

\* Lines 125-128: the "failure" entry, then the exception is raised again.
LogFailure(t) ==
  /\ pc[t] = "raised"
  /\ \E ok \in BOOLEAN :
       LET w == LogWrite(audit[t], WrapperFailure(t, "process_document")[1], ok)
       IN audit' = [audit EXCEPT ![t] = w.log]
  /\ pc' = [pc EXCEPT ![t] = "failed"]
  /\ UNCHANGED <<fs, tmpfs, records, queue, arg, attempts, loc, result,
                 foundNone>>
  /\ UNCHANGED <<mvars, dvars>>

NextWrapper ==
  \/ \E t \in Tasks : LogPending(t)
  \/ \E t \in Tasks : LogInProgress(t)
  \/ \E t \in Tasks : RunBody(t)
  \/ \E t \in Tasks : LogSuccess(t)
  \/ \E t \in Tasks : LogFailure(t)

\* The wrapped stages are invocations on one input path.
InitWrapper == Init /\ \A t \in Tasks : arg[t] = arg[1]
SpecWrapper == InitWrapper /\ [][NextWrapper]_vars

\* One document submitted once to the ingest stage; the other ingest tasks
\* were never submitted.
InitPipe ==
  /\ fs = InputFs
  /\ tmpfs = <<>>
  /\ records = <<>>
  /\ audit = [t \in Tasks |-> <<>>]
  /\ queue = {}
  /\ \E path \in Paths :
       arg = [t \in Tasks |-> IF t = 1 THEN path ELSE <<"workdir", "gone.pdf">>]
  /\ pc = [t \in Tasks |-> IF t = 1 THEN "queued" ELSE "none"]
  /\ attempts = [t \in Tasks |-> 0]
  /\ loc = [t \in Tasks |-> EmptyLocal]
  /\ result = [t \in Tasks |-> NoResult]
  /\ foundNone = [t \in Tasks |-> FALSE]
  /\ PollerOff
  /\ FlowOff

\* A worker receives the successor message m the ingest stage sent with
\* .delay (process_document.py lines 116 and 125): the stage it names is
\* enqueued for the document whose record names the working copy.
Dispatch(m) ==
  /\ m \in queue
  /\ \E d \in Docs :
       /\ d <= Len(records)
       /\ records[d].local_filename = TmpPath(m.args[1])
       /\ job[d][m.task].n = 0
       /\ job' = Enqueue(job, d, m.task, m.args)
  /\ UNCHANGED <<tmpfs, records, disk, remote>>
  /\ FlowFrame

\* The pipeline of one document from ingest to finalize.
NextPipe ==
  \/ \E t \in Tasks : Start(t)
  \/ \E t \in Tasks : Lookup(t)
  \/ \E t \in Tasks : Insert(t)
  \/ \E t \in Tasks : Copy(t)
  \/ \E t \in Tasks : Update(t)
  \/ \E t \in Tasks : CheckText(t)
  \/ \E t \in Tasks : Retry(t)
  \/ \E m \in queue : Dispatch(m)
  \/ \E d \in Docs : Ocr(d)
  \/ \E d \in Docs : Classify(d)
  \/ \E d \in Docs : EmbedStart(d)
  \/ \E d \in Docs : EmbedSave(d)
  \/ \E d \in Docs : EmbedMove(d)
  \/ \E d \in Docs : EmbedCleanup(d)
  \/ \E d \in Docs : Finalize(d)
  \/ \E d \in Docs, st \in Stages : JobRetry(d, st)

SpecPipe == InitPipe /\ [][NextPipe]_vars

\* MaxTasks submissions to the ingest stage, of the same bytes or not, with
\* the stages after ingest of the document that gets the first record.
SpecResubmit == Init /\ [][NextPipe]_vars

\* Documents that are at the embedding stage at the same time.
Pair == 1..(MaxDocs + 1)

\* The state the classification stage leaves for each document of Pair: the
\* record and the working copy of the ingest stage, and the embedding stage
\* enqueued with the parsed structure (extract_metadata_with_gpt.py line
\* 105).  The structures of two documents can carry the same filename.
InitEmbed ==
  /\ fs = InputFs
  /\ arg = [t \in Tasks |-> <<"workdir", "gone.pdf">>]
  /\ pc = [t \in Tasks |-> "queued"]
  /\ attempts = [t \in Tasks |-> 0]
  /\ loc = [t \in Tasks |-> EmptyLocal]
  /\ result = [t \in Tasks |-> NoResult]
  /\ foundNone = [t \in Tasks |-> FALSE]
  /\ audit = [t \in Tasks |-> <<>>]
  /\ queue = {}
  /\ InitPoller
  /\ settings.configured = <<TRUE, TRUE>>
  /\ \E content \in [Pair -> Contents], metadata \in [Pair -> Metadatas] :
       /\ records = [d \in Pair |->
                       [id |-> d, filehash |-> <<"sha256", content[d], d>>,
                        original_filename |-> "in.pdf",
                        local_filename |-> TmpPath(DocName(d)),
                        file_size |-> FileSize(content[d]),
                        mime_type |-> "application/pdf"]]
       /\ tmpfs = [q \in {TmpPath(DocName(d)) : d \in Pair} |-> content[q[3][2]]]
       /\ job = [d \in Pair |-> [st \in Stages |->
                   IF st = "embed_metadata_into_pdf"
                   THEN [NoJob EXCEPT !.pc = "queued", !.n = 1,
                           !.args = <<DocName(d), "text", metadata[d]>>]
                   ELSE NoJob]]
  /\ disk = <<>>
  /\ remote = [u \in Uploads |-> <<>>]

\* The embedding stages of these documents, each on its own worker.
NextEmbed ==
  \/ \E d \in Pair : EmbedStart(d)
  \/ \E d \in Pair : EmbedSave(d)
  \/ \E d \in Pair : EmbedMove(d)
  \/ \E d \in Pair : EmbedCleanup(d)
  \/ \E d \in Pair : JobRetry(d, "embed_metadata_into_pdf")

SpecEmbed == InitEmbed /\ [][NextEmbed]_vars

\* The stages an HTTP endpoint enqueues for a file under <workdir>/processed
\* (main.py: /send_to_dropbox/, /send_to_paperless/, /send_to_nextcloud/,
\* /send_to_all_destinations/).
Direct == Uploads \cup {"send_to_all_destinations"}

\* One of these endpoints is called with the processed file of document d:
\* the file must exist, and the stage is enqueued with its path.  A request
\* is taken for a stage that has no invocation for the document yet.
SendToEndpoint(d, st) ==
  LET l == job[d]["embed_metadata_into_pdf"].loc
  IN /\ st \in Direct
     /\ job[d][st].pc = "none"
     /\ DOMAIN l # {}
     /\ l.final_file_path \in DOMAIN disk
     /\ job' = Enqueue(job, d, st, <<l.final_file_path>>)
     /\ UNCHANGED <<tmpfs, records, disk, remote>>
     /\ FlowFrame

\* The steps the workers take for a document: the ingest stage and every
\* stage after it down to the fan-out, and of the three uploads it enqueues
\* the one to Dropbox.
NextWorkers ==
  \/ NextPipe
  \/ \E d \in Docs : SendAll(d)
  \/ \E d \in Docs : Upload(d, "upload_to_dropbox")

\* The whole pipeline of one submitted document, with the endpoints that
\* send a processed file.  A worker takes every task that is in its queue.
NextChain ==
  \/ NextWorkers
  \/ \E d \in Docs, st \in Direct : SendToEndpoint(d, st)

\* Where every task stands: the position of each ingest task and, for each
\* document and stage, the position, the number of invocations and the
\* retries.  Every step of a worker changes it.
Position ==
  <<pc, [d \in Docs |-> [st \in Stages |->
           <<job[d][st].pc, job[d][st].n, job[d][st].retries>>]]>>

SpecChain == InitPipe /\ [][NextChain]_vars /\ WF_Position(NextWorkers)


(***************************************************************************)
(* Claims about the ingest stage.                                          *)
(***************************************************************************)
SameBytes(t, u) == fs[arg[t]] # Missing /\ fs[arg[u]] = fs[arg[t]]
TerminalStatus == {"success", "failure"}
\* An invocation is over for good: it returned, or raised with no retry left.
Finished(t) == pc[t] = "done" \/ (pc[t] = "failed" /\ attempts[t] = MaxRetries)

\* C1: when an ingest invocation looks up its hash after another invocation
\* on byte-identical input has settled, whatever the two filenames, it
\* returns duplicate_file with the id of the record stored for those bytes
\* (the one the first created), creates no record and enqueues nothing.
C1_SecondIsDuplicate ==
  [][\A t \in Tasks :
       (/\ pc[t] = "lookup"
        /\ pc'[t] # "lookup"
        /\ \E u \in Tasks \ {t} : Settled(u) /\ SameBytes(t, u))
       => /\ pc'[t] = "done"
          /\ result'[t].status = "duplicate_file"
          /\ \E i \in 1..Len(records) :
               /\ records[i].filehash = <<"sha256", fs[arg[t]]>>
               /\ result'[t].file_id = records[i].id
          /\ \A u \in Tasks \ {t} :
               (Settled(u) /\ SameBytes(t, u) /\ loc[u].new_record # 0)
                 => result'[t].file_id = loc[u].new_record
          /\ records' = records
          /\ queue' = queue]_vars

\* C1 witness: one invocation created the record and enqueued its successor,
\* the other, on the same bytes under another name, returned duplicate_file
\* with that record's id.
C1_Witness ==
  \E t, u \in Tasks :
    /\ t # u /\ arg[t] # arg[u] /\ SameBytes(t, u)
    /\ pc[u] = "done" /\ loc[u].new_record # 0
    /\ pc[t] = "done" /\ result[t].status = "duplicate_file"
    /\ result[t].file_id = loc[u].new_record
    /\ Len(records) = 1

\* C2: the files table never holds two rows with the same filehash.
C2_OneRecordPerHash ==
  \A i, j \in 1..Len(records) :
    records[i].filehash = records[j].filehash => i = j

\* C2 witness: two invocations on identical bytes both found no record; one
\* committed its row and the other's commit was rejected.
C2_Witness ==
  \E t, u \in Tasks :
    /\ t # u /\ SameBytes(t, u)
    /\ foundNone[t] /\ foundNone[u]
    /\ loc[u].new_record # 0
    /\ pc[t] = "failed" /\ loc[t].new_record = 0 /\ attempts[t] = 0

\* C3: no task ever reads a committed record whose local_filename is still
\* empty or names a file that is not in <workdir>/tmp.
C3_NoHalfInitialisedRead ==
  \A t \in Tasks :
    loc[t].existing_record.id # 0
      => /\ loc[t].existing_record.local_filename # NoPath
         /\ loc[t].existing_record.local_filename \in DOMAIN tmpfs

\* C4: an invocation that found no record for its hash has, once it is over,
\* enqueued exactly one successor; one that only ever saw a duplicate, none.
C4_ExactlyOneSuccessor ==
  \A t \in Tasks :
    Finished(t) =>
      Cardinality(EnqueuedBy(t)) = (IF foundNone[t] THEN 1 ELSE 0)

\* The rows attempt a of task t wrote for a stage.
StageRows(t, a, step) ==
  {i \in 1..Len(audit[t]) :
     audit[t][i].attempt = a /\ audit[t][i].step_name = step}
AttemptSettled(t, a) == a < attempts[t] \/ (a = attempts[t] /\ Settled(t))

\* C5: once an attempt has settled, the rows it wrote for its stage carry
\* exactly one terminal status: success or failure, not both, not neither.
C5_OneTerminalStatus ==
  \A t \in Tasks : \A a \in 0..MaxRetries :
    AttemptSettled(t, a) =>
      Cardinality({audit[t][i].status : i \in StageRows(t, a, "process_document")}
                  \cap TerminalStatus) = 1

C8_ReleasedOnEveryExit ==
  [][\A p \in Ticks :
       (Running(p) /\ tpc'[p] \notin {"mailbox", "messages", "release", "crashed"})
         => (tpc[p] = "release" /\ tpc'[p] = "done" /\ ~lockKey' /\ setnx')]_vars

\* A cycle ended by an exception while loading the cache at the first
\* mailbox, and a later tick has acquired the lock and runs.
C8_Witness ==
  \E p, q \in Ticks :
    /\ settings.configured[1]
    /\ tpc[p] = "done" /\ tmb[p] = 1
    /\ Running(q) /\ lockKey /\ lockOwner = q
    /\ ~overrun

\* C9: the key of a holder that crashed carries an expiry, so that it goes
\* away by itself.  It fails for a crash between SETNX and EXPIRE.
C9_DeadHolderKeyExpires ==
  \A p \in Ticks :
    (tpc[p] = "crashed" /\ lockKey /\ lockOwner = p) => lockTtl

\* C10: no attachment is enqueued of a message whose Message-ID was in the
\* cache file when the pull started, or of a Gmail message that carried the
\* Ingested label.
C10_SeenOrLabelledNotEnqueued ==
  \A e \in mailq : ~e.inFile /\ ~e.labelled

\* C11: a load of the cache followed by a save drops every entry stamped 7
\* days ago or earlier (exactly 7 days counts as expired), keeps every entry
\* stamped later with its identifier and timestamp unchanged, and adds none.
C11_RetentionOnLoadSave ==
  [][(cacheFile' # cacheFile \/ tfile' # tfile \/ tcache' # tcache) =>
       /\ DOMAIN cacheFile' \subseteq DOMAIN cacheFile
       /\ \A i \in DOMAIN cacheFile :
            IF now - cacheFile[i] >= 7
            THEN i \notin DOMAIN cacheFile'
            ELSE i \in DOMAIN cacheFile' /\ cacheFile'[i] = cacheFile[i]]_vars

\* A load-and-save found two entries, dropped one of them and kept the one
\* stamped 6 days before.
C11_Witness ==
  \E p \in Ticks :
    /\ tfile[p] = CacheIds
    /\ DOMAIN cacheFile = {"<b@example.org>"}
    /\ cacheFile["<b@example.org>"] = now - 6
    /\ tcache[p] = cacheFile

(***************************************************************************)
(* Claims about the stages after ingest.                                   *)
(***************************************************************************)
InRemote(u, file_path) == \E i \in 1..Len(remote[u]) : remote[u][i] = file_path

\* C12: once the fan-out of a finalized document has run, each of the three
\* upload stages has been enqueued exactly once with the document's path
\* (and none before it ran); an upload that is enqueued can run whatever
\* became of the other two, and a destination whose upload completed keeps
\* the file.
C12_ThreeIndependentUploads ==
  \A d \in Docs :
    LET sa == job[d]["send_to_all_destinations"]
    IN /\ sa.pc = "done" =>
            \A u \in Uploads : job[d][u].n = 1 /\ job[d][u].args = sa.args
       /\ sa.pc # "done" => \A u \in Uploads : job[d][u].n = 0
       /\ \A u \in Uploads :
            /\ job[d][u].pc = "queued" => ENABLED Upload(d, u)
            /\ job[d][u].pc = "done" => InRemote(u, job[d][u].args[1])

\* The Paperless upload has failed for good while the Dropbox and the
\* Nextcloud upload completed.
C12_Witness ==
  \E d \in Docs :
    /\ job[d]["send_to_all_destinations"].pc = "done"
    /\ job[d]["upload_to_paperless"].pc = "failed"
    /\ job[d]["upload_to_paperless"].retries = MaxRetries
    /\ job[d]["upload_to_dropbox"].pc = "done"
    /\ job[d]["upload_to_nextcloud"].pc = "done"
    /\ InRemote("upload_to_dropbox", job[d]["upload_to_dropbox"].args[1])
    /\ InRemote("upload_to_nextcloud", job[d]["upload_to_nextcloud"].args[1])

\* The stages that come after classification.
AfterClassification ==
  Stages \ {"process_with_textract", "extract_metadata_with_gpt"}

\* The invocation received a response in which no JSON object was found.
Unparseable(j) ==
  /\ j.pc \notin {"none", "queued"}
  /\ j.loc.fenced # "json" /\ j.loc.fenced # "parsed"
  /\ j.loc.fenced # "no response"
  /\ j.loc.fenced = NoJson => j.loc.braces # "json"

\* C13: when the response of the language model holds no parseable
\* structured block, classification returns the empty result without
\* raising, has written a failure entry under its own task id to the audit
\* log, and has enqueued no successor: no later stage exists for the
\* document.
C13_UnparseableEndsQuietly ==
  \A d \in Docs :
    LET j == job[d]["extract_metadata_with_gpt"]
    IN Unparseable(j) =>
         /\ j.pc = "done" /\ j.retries = 0
         /\ j.result = "{}"
         /\ \E i \in 1..Len(j.log) :
              /\ j.log[i].status = "failure"
              /\ j.log[i].task_id = JobId(d, "extract_metadata_with_gpt")
         /\ \A st \in AfterClassification : job[d][st] = NoJob

\* Classification of a document has ended on a response with neither a
\* fenced block nor braces.
C13_Witness ==
  \E d \in Docs :
    /\ job[d]["extract_metadata_with_gpt"].pc = "done"
    /\ job[d]["extract_metadata_with_gpt"].loc = [fenced |-> NoJson, braces |-> NoJson]
    /\ job[d]["extract_metadata_with_gpt"].result = "{}"

(***************************************************************************)
(* Claims about the successor of the ingest stage.                         *)
(***************************************************************************)
\* The bytes of the working copy a successor message names.
WorkingCopy(m) == tmpfs[TmpPath(m.args[1])]

\* C14: the successor the ingest stage enqueues for a new document is the
\* classification stage, with the embedded text, exactly when the working
\* copy has embedded text, and the OCR stage otherwise; no invocation
\* enqueues both, so OCR is never invoked for a document with text.
C14_SuccessorByEmbeddedText ==
  /\ \A m \in queue :
       /\ TmpPath(m.args[1]) \in DOMAIN tmpfs
       /\ m.task \in {"extract_metadata_with_gpt", "process_with_textract"}
       /\ (m.task = "extract_metadata_with_gpt") <=> (WorkingCopy(m) = "A")
       /\ (m.task = "process_with_textract") <=> (WorkingCopy(m) = "S")
       /\ m.task = "extract_metadata_with_gpt" => m.args = <<m.args[1], "text of A">>
       /\ m.task = "process_with_textract" => m.args = <<m.args[1]>>
  /\ \A t \in Tasks : Cardinality(EnqueuedBy(t)) <= 1
  /\ \A m1, m2 \in queue :
       WorkingCopy(m1) = WorkingCopy(m2) => m1.task = m2.task

\* One invocation has sent a document with embedded text to classification
\* and another a scanned one to OCR.
C14_Witness ==
  \E m1, m2 \in queue :
    /\ m1.task = "extract_metadata_with_gpt" /\ WorkingCopy(m1) = "A"
    /\ pc[m1.by] = "done" /\ result[m1.by].status = "Text extracted locally"
    /\ m2.task = "process_with_textract" /\ WorkingCopy(m2) = "S"
    /\ pc[m2.by] = "done" /\ result[m2.by].status = "Queued for OCR"

\* Document d came out of the ingest stage without embedded text, and no
\* attempt of its OCR stage has failed.
ScannedNoFailure(d) ==
  /\ records[d].filehash[2] = "S"
  /\ job[d]["process_with_textract"].pc # "failed"
  /\ job[d]["process_with_textract"].retries = 0

\* C15: for a new document without embedded text, when no OCR attempt
\* fails, the OCR stage is enqueued once and runs once; the classification
\* stage exists for the document only after OCR has completed, that is
\* after the working copy was overwritten with the searchable PDF and
\* classification was enqueued, once, with the recognised text.
C15_OneOcrBeforeClassification ==
  \A d \in Docs :
    LET ocr == job[d]["process_with_textract"]
        cl == job[d]["extract_metadata_with_gpt"]
        path == TmpPath(DocName(d))
    IN ScannedNoFailure(d) =>
         /\ ocr.n = 1 /\ ocr.args = <<DocName(d)>>
         /\ ocr.pc = "queued" =>
              /\ cl = NoJob
              /\ tmpfs[path] = "S"
         /\ ocr.pc = "done" =>
              /\ cl.pc # "none" /\ cl.n = 1
              /\ cl.args = <<DocName(d), OcrText("S")>>
              /\ path \in DOMAIN tmpfs => tmpfs[path] = "searchable S"
              /\ \E i \in 1..Len(ocr.log) : ocr.log[i].status = "success"

\* OCR of a scanned document completed at its first attempt and the
\* classification it enqueued has run.
C15_Witness ==
  \E d \in Docs :
    /\ ScannedNoFailure(d)
    /\ job[d]["process_with_textract"].pc = "done"
    /\ job[d]["extract_metadata_with_gpt"].pc = "done"
    /\ job[d]["extract_metadata_with_gpt"].result = "metadata"

\* Some attempt of invocation t committed the record of its document and
\* went on to copy the working file: the attempts that can fail with an I/O
\* error after hashing.
CommittedRecord(t) ==
  \E i \in 1..Len(audit[t]) : audit[t][i].step_name = "copy_to_workdir"

\* C16 as stated: an invocation whose attempt failed with an I/O error after
\* it had stored the record (copying the working file, opening the copy) and
\* whose retry completed has enqueued the one successor of its document.  It
\* fails: the retry finds the record of the failed attempt and returns
\* duplicate_file.
C16_RetryEnqueuesSuccessor ==
  \A t \in Tasks :
    (pc[t] = "done" /\ attempts[t] > 0 /\ CommittedRecord(t))
      => /\ Cardinality(EnqueuedBy(t)) = 1
         /\ result[t].status \in {"Text extracted locally", "Queued for OCR"}

\* C17: an ingest invocation whose input file does not exist ends at its
\* first attempt without raising: it returns the error result, no record
\* exists for its file, it has enqueued no successor, and a failure row
\* for the stage, under its own task id, is in the audit log.
C17_MissingInputIsTerminal ==
  \A t \in Tasks :
    (fs[arg[t]] = Missing /\ pc[t] # "queued") =>
      /\ pc[t] = "done" /\ attempts[t] = 0
      /\ result[t] = [status |-> "error", file_id |-> 0]
      /\ EnqueuedBy(t) = {}
      /\ \A i \in 1..Len(records) :
           records[i].original_filename # Basename(arg[t])
      /\ \E i \in 1..Len(audit[t]) :
           /\ audit[t][i].step_name = "process_document"
           /\ audit[t][i].status = "failure"
           /\ audit[t][i].task_id = RequestId(t)

\* An invocation on a missing file is over while another has stored the
\* record of an existing one.
C17_Witness ==
  \E t, u \in Tasks :
    /\ fs[arg[t]] = Missing /\ pc[t] = "done" /\ result[t].status = "error"
    /\ fs[arg[u]] # Missing /\ pc[u] = "done" /\ Len(records) = 1

(***************************************************************************)
(* Claims about what the poller enqueues.                                  *)
(***************************************************************************)
\* C18 as stated: every task the poller has enqueued for a PDF attachment
\* is a task of the ingest stage, process_document, on the file the
\* attachment was written to.  It fails: fetch_attachments_and_enqueue
\* calls upload_to_s3.delay.
C18_AttachmentsGoToIngest ==
  \A e \in mailq :
    /\ e.task = "process_document"
    /\ \E i \in PdfParts(e.msg) :
         e.file_path = <<"workdir", MsgParts(e.msg)[i].filename>>

(***************************************************************************)
(* Claims about the metadata embedding stage.                              *)
(***************************************************************************)
\* The embedding stage of document d made its copy under /tmp and is over.
EmbedOver(d) ==
  /\ job[d]["embed_metadata_into_pdf"].pc = "done"
  /\ DOMAIN job[d]["embed_metadata_into_pdf"].loc # {}

\* C19 as stated: once the embedding stage is over, on whichever path, its
\* copy under /tmp and the original under <workdir>/tmp are gone.  It
\* fails: the except branch of lines 136-139 returns the error and removes
\* nothing.
C19_CleanupOnEveryExit ==
  \A d \in Docs :
    EmbedOver(d) =>
      /\ job[d]["embed_metadata_into_pdf"].loc.processed_file \notin DOMAIN disk
      /\ job[d]["embed_metadata_into_pdf"].loc.original_file \notin DOMAIN tmpfs

(***************************************************************************)
(* Claims about the record's working path.                                 *)
(***************************************************************************)
\* The files of document d that exist: the working copy under
\* <workdir>/tmp, and the processed file its embedding stage moved to.
FilesOf(d) ==
  ({TmpPath(DocName(d))} \cap DOMAIN tmpfs)
  \cup (IF job[d]["embed_metadata_into_pdf"].result = "ok"
        THEN {job[d]["embed_metadata_into_pdf"].loc.final_file_path} \cap DOMAIN disk
        ELSE {})

\* C20 as stated: once the embedding stage has moved the document into the
\* processed area and deleted the copy under <workdir>/tmp, the
\* local_filename of the document's record names the file that exists for
\* the document.  It fails: no stage after ingest assigns local_filename.
C20_WorkingPathNamesTheFile ==
  \A d \in Docs :
    (job[d]["embed_metadata_into_pdf"].pc = "done"
       /\ job[d]["embed_metadata_into_pdf"].result = "ok")
      => records[d].local_filename \in FilesOf(d)

(***************************************************************************)
(* Claims about the order of side effects and enqueues.                    *)
(***************************************************************************)
\* Stage st of document d is enqueued and its attempt has not started.
Waiting(d, st) == job[d][st].pc = "queued"

\* C21: a stage enqueues its successor only after its own side effects are
\* committed.  A successor message of the ingest stage names a working copy
\* that a committed record names and that holds the bytes of the input;
\* while OCR waits the copy is there as ingest left it; while classification
\* waits after OCR the copy is the searchable PDF; while embedding waits the
\* copy is there; while finalize waits the processed file and its JSON are
\* in the processed area and the copy under /tmp is gone.
C21_EnqueueAfterSideEffects ==
  /\ \A m \in queue :
       /\ \E i \in 1..Len(records) :
            /\ records[i].local_filename = TmpPath(m.args[1])
            /\ records[i].filehash = hash_file(arg[m.by])
       /\ (\A d \in Docs : job[d][m.task].n = 0) =>
            /\ TmpPath(m.args[1]) \in DOMAIN tmpfs
            /\ tmpfs[TmpPath(m.args[1])] = fs[arg[m.by]]
  /\ \A d \in Docs :
       LET ocr == job[d]["process_with_textract"]
           cl == job[d]["extract_metadata_with_gpt"]
           em == job[d]["embed_metadata_into_pdf"]
           fin == job[d]["finalize_document_storage"]
       IN /\ Waiting(d, "process_with_textract") =>
               /\ TmpPath(ocr.args[1]) \in DOMAIN tmpfs
               /\ tmpfs[TmpPath(ocr.args[1])] = "S"
               /\ records[d].local_filename = TmpPath(ocr.args[1])
          /\ Waiting(d, "extract_metadata_with_gpt") =>
               /\ TmpPath(cl.args[1]) \in DOMAIN tmpfs
               /\ records[d].local_filename = TmpPath(cl.args[1])
               /\ IF ocr.n > 0
                  THEN /\ ocr.pc = "done"
                       /\ tmpfs[TmpPath(cl.args[1])] = "searchable S"
                       /\ cl.args[2] = OcrText("S")
                  ELSE tmpfs[TmpPath(cl.args[1])] = "A"
          /\ Waiting(d, "embed_metadata_into_pdf") =>
               /\ cl.pc = "done"
               /\ TmpPath(em.args[1]) \in DOMAIN tmpfs
          /\ Waiting(d, "finalize_document_storage") =>
               /\ fin.args[2] \in DOMAIN disk
               /\ JsonPath(fin.args[2]) \in DOMAIN disk
               /\ disk[JsonPath(fin.args[2])] = fin.args[3]
               /\ em.loc.processed_file \notin DOMAIN disk

\* Finalize waits for a scanned document that went through ingest, OCR,
\* classification and embedding, while embedding has not yet deleted the
\* original.
C21_Witness ==
  \E d \in Docs :
    /\ Waiting(d, "finalize_document_storage")
    /\ job[d]["process_with_textract"].pc = "done"
    /\ job[d]["embed_metadata_into_pdf"].pc = "cleanup"
    /\ \E m \in queue : m.task = "process_with_textract" /\ pc[m.by] = "done"

(***************************************************************************)
(* Claims about how the stages after ingest fail.                          *)
(***************************************************************************)
\* The stages that are said to raise when their work fails.
RaisingStages ==
  {"process_with_textract", "embed_metadata_into_pdf"} \cup Uploads

\* C22 as stated: the OCR stage, the embedding stage and the three uploads
\* never return normally with an error for a result; an invocation that is
\* over without having raised has done its work.  It fails: the embedding
\* stage returns {"error": ...} for a missing file and for every exception
\* of its try block.
C22_FailuresAreRaised ==
  \A d \in Docs : \A st \in RaisingStages :
    job[d][st].pc = "done" => job[d][st].result # "error"

(***************************************************************************)
(* Claims about the Paperless status poll.                                 *)
(***************************************************************************)
\* The Paperless upload of document d ended on the timeout of its poll.
TimedOut(d) ==
  /\ job[d]["upload_to_paperless"].pc = "failed"
  /\ job[d]["upload_to_paperless"].result = "timeout"

\* C23: the timeout of the Paperless status poll is its own kind of error
\* and is terminal: once an upload has timed out, the stage is in no other
\* position again, so it is not re-attempted, and Paperless receives no
\* further post.
C23_TimeoutIsTerminal ==
  [][\A d \in Docs :
       job[d]["upload_to_paperless"].result = "timeout" =>
         /\ TimedOut(d)
         /\ job'[d]["upload_to_paperless"] = job[d]["upload_to_paperless"]
         /\ remote'["upload_to_paperless"] = remote["upload_to_paperless"]]_vars

\* An upload has timed out after POLL_MAX_ATTEMPTS status requests, with
\* retries left and one post made.
C23_Witness ==
  \E d \in Docs :
    /\ TimedOut(d)
    /\ job[d]["upload_to_paperless"].loc.requests = POLL_MAX_ATTEMPTS
    /\ job[d]["upload_to_paperless"].retries < MaxRetries
    /\ Len(remote["upload_to_paperless"]) = 1

\* The Paperless upload of document d has reached its status poll.
Polled(d) ==
  \/ job[d]["upload_to_paperless"].pc = "poll"
  \/ job[d]["upload_to_paperless"].result \in {"Completed", "runtime_error", "timeout"}

\* C24: the status poll makes at most POLL_MAX_ATTEMPTS requests, each
\* failed request and each empty or non-terminal answer counting against
\* the budget; it returns only on SUCCESS with a related document, raises
\* the runtime error on FAILURE and on SUCCESS without a document, and
\* raises the timeout exactly when POLL_MAX_ATTEMPTS requests brought no
\* terminal answer.
C24_PollIsBounded ==
  \A d \in Docs :
    LET j == job[d]["upload_to_paperless"]
    IN Polled(d) =>
         /\ j.loc.requests <= POLL_MAX_ATTEMPTS
         /\ j.pc = "poll" =>
              /\ j.loc.requests = j.loc.attempts
              /\ j.loc.last \in {"none", "request_fails", "empty", "pending"}
              /\ ENABLED PaperlessPoll(d, PollAnswers)
         /\ j.pc = "done" <=> j.loc.last = "success"
         /\ j.pc = "done" => j.result = "Completed"
         /\ j.result = "runtime_error" <=>
              (j.pc = "failed" /\ j.loc.last \in {"failure", "success_no_document"})
         /\ j.result = "timeout" <=>
              /\ j.pc = "failed"
              /\ j.loc.requests = POLL_MAX_ATTEMPTS
              /\ j.loc.last \in {"request_fails", "empty", "pending"}

\* The poll has timed out after POLL_MAX_ATTEMPTS requests of which some
\* failed and the last found the list of tasks empty.
C24_Witness ==
  \E d \in Docs :
    /\ TimedOut(d)
    /\ job[d]["upload_to_paperless"].loc.requests = POLL_MAX_ATTEMPTS
    /\ job[d]["upload_to_paperless"].loc.last = "empty"
    /\ \E i \in 1..Len(job[d]["upload_to_paperless"].log) :
         job[d]["upload_to_paperless"].log[i].status = "warning"

(***************************************************************************)
(* Claims about the audit log.                                             *)
(***************************************************************************)
\* C25: the audit log is append-only.  A logging call leaves the entries
\* that exist as they are, in their order, and adds exactly one entry
\* after them or, when the write fails, none.
C25_AppendOnly ==
  [][\A t \in Tasks :
       /\ Len(audit'[t]) \in {Len(audit[t]), Len(audit[t]) + 1}
       /\ \A i \in 1..Len(audit[t]) : audit'[t][i] = audit[t][i]]_vars

\* A task has two entries for the same step, a failure written after a
\* success, while the other task has none.
C25_Witness ==
  \E t, u \in Tasks :
    /\ Len(audit[t]) = 2
    /\ audit[t][1].status = "success" /\ audit[t][2].status = "failure"
    /\ audit[t][1].step_name = audit[t][2].step_name
    /\ audit[u] = <<>>

\* C26 as stated: every entry of an ingest invocation, those of the
\* log_task wrapper (pending, in_progress, success or failure) as well as
\* those of the body, is keyed by the task id of the invocation.  It fails:
\* the wrapper finds no request on itself and writes under "unknown_task".
C26_LifecycleKeyedByTaskId ==
  \A t \in Tasks : \A i \in 1..Len(audit[t]) :
    audit[t][i].task_id = RequestId(t)

(***************************************************************************)
(* Claims about the life of a record.                                      *)
(***************************************************************************)
\* C27: no step of any stage deletes a record, and no step changes the
\* id, filehash, original_filename, file_size or mime_type of a record that
\* exists; local_filename is the only field that is reassigned.
C27_RecordIsImmutable ==
  [][/\ Len(records') >= Len(records)
     /\ \A i \in 1..Len(records) :
          records'[i] = [records[i] EXCEPT
                           !.local_filename = records'[i].local_filename]]_vars

\* The record of a document got its working path after it was created, and
\* the document has gone through every stage up to finalize.
C27_Witness ==
  /\ Len(records) = 1
  /\ records[1].local_filename # NoPath
  /\ \E t \in Tasks : pc[t] = "done" /\ loc[t].new_record = 1
  /\ \E d \in Docs : job[d]["finalize_document_storage"].pc = "done"

(***************************************************************************)
(* Claims about the fan-out aggregator.                                    *)
(***************************************************************************)
\* C28: the aggregator settles with the ids of the three upload tasks and
\* a success entry, whatever the uploads do: its result and its entries are
\* the same in every state in which it is over, and nothing an upload does
\* later changes them.
C28_AggregatorDoesNotWait ==
  /\ [](\A d \in Docs :
          LET sa == job[d]["send_to_all_destinations"]
          IN /\ sa.pc \in {"none", "queued", "done"}
             /\ sa.pc = "done" =>
                  /\ sa.result = "All upload tasks enqueued"
                  /\ sa.loc.task_ids = [u \in Uploads |-> JobId(d, u)]
                  /\ sa.log = JobStart("send_to_all_destinations")
                                \o JobLog(d, "send_to_all_destinations",
                                          "send_to_all", "info", "")
                                \o JobLog(d, "send_to_all_destinations",
                                          "send_to_all", "info", "success")
                                \o JobSuccess("send_to_all_destinations"))
  /\ [][\A d \in Docs :
          job[d]["send_to_all_destinations"].pc = "done" =>
            job'[d]["send_to_all_destinations"] = job[d]["send_to_all_destinations"]]_vars

\* The aggregator is over and none of the three uploads has started.
C28_Witness ==
  \E d \in Docs :
    /\ job[d]["send_to_all_destinations"].pc = "done"
    /\ \A u \in Uploads :
         /\ job[d][u].pc = "queued" /\ job[d][u].retries = 0
         /\ job[d][u].log = <<>>

(***************************************************************************)
(* Claims about a tick that does not get the lock.                         *)
(***************************************************************************)
\* C29: a scheduled tick that takes its step while the key exists ends as
\* skipped, and the step changes nothing else: the key, its expiry and its
\* holder, the cache file and the cache of every cycle, the mailboxes and
\* the enqueued tasks stay as they are; a skipped tick takes no step again.
C29_SkippedTickHasNoEffect ==
  [][\A p \in Ticks :
       /\ (tpc[p] = "scheduled" /\ lockKey /\ tpc'[p] # tpc[p]) =>
            /\ tpc' = [tpc EXCEPT ![p] = "skipped"]
            /\ <<lockKey, lockTtl, lockOwner>>' = <<lockKey, lockTtl, lockOwner>>
            /\ <<cacheFile, tcache, tfile, tlist>>' = <<cacheFile, tcache, tfile, tlist>>
            /\ <<mailq, mbox, fs, tmb, tio, overrun>>' = <<mailq, mbox, fs, tmb, tio, overrun>>
       /\ tpc[p] = "skipped" => tpc'[p] = "skipped"]_vars

\* A tick was skipped while another cycle holds the key and is at work on
\* its messages; the key is still there.
C29_Witness ==
  \E p, q \in Ticks :
    /\ tpc[p] = "skipped"
    /\ tpc[q] = "messages"
    /\ lockKey /\ lockTtl /\ lockOwner = q

\* The cycle p takes a step while it is at a message of its list.
Handling(p) ==
  /\ tpc[p] = "messages"
  /\ tlist[p] # <<>>
  /\ tlist'[p] # tlist[p]

\* C30: for the message a poller cycle handles, the attachments are enqueued
\* first, then the Message-ID is recorded in the Seen-Mail Cache and the cache
\* is persisted, and only then one final action is applied, the deletion when
\* delete_after_process is set for the mailbox and the return to unread
\* otherwise.  So a step that puts the Message-ID into the cache file has the
\* attachments in the queue; a step that changes the message while the
\* Message-ID is not in the cache file leaves it neither deleted nor unread;
\* a step that flags the message as deleted has the Message-ID in the cache
\* file; and a step that completes the handling leaves the message with
\* exactly the configured one of the two final actions applied.
C30_CacheBeforeFinalAction ==
  [][\A p \in Ticks :
       Handling(p) =>
         LET m == Head(tlist[p])
             id == MsgId(m)
             del == settings.delete_after_process[tmb[p]]
         IN /\ (id \notin DOMAIN cacheFile /\ id \in DOMAIN cacheFile')
                  => Enqueued(p, m) \subseteq mailq'
            /\ (mbox'[m] # mbox[m] /\ id \notin DOMAIN cacheFile')
                  => /\ ~mbox'[m].unseen
                     /\ mbox'[m].deleted = mbox[m].deleted
            /\ (~mbox[m].deleted /\ mbox'[m].deleted)
                  => /\ del
                     /\ id \in DOMAIN cacheFile'
                     /\ cacheFile'[id] = now
                     /\ Enqueued(p, m) \subseteq mailq'
            /\ (id \notin DOMAIN tcache[p] /\ id \in DOMAIN tcache'[p])
                  => /\ Enqueued(p, m) \subseteq mailq'
                     /\ id \in DOMAIN cacheFile'
                     /\ mbox'[m].deleted = del
                     /\ mbox'[m].unseen = ~del]_vars

\* A message with a PDF attachment was handled to the end where
\* delete_after_process is set: it is flagged as deleted, its Message-ID is in
\* the cache file and its attachment is in the queue.
C30_Witness ==
  \E m \in Msgs :
    /\ settings.delete_after_process[MsgMailbox(m)]
    /\ mbox[m].present
    /\ mbox[m].deleted
    /\ ~mbox[m].unseen
    /\ MsgId(m) \in DOMAIN cacheFile
    /\ \E q \in mailq : q.msg = m

(***************************************************************************)
(* Claims about the pipeline as a whole.                                   *)
(***************************************************************************)
\* An attempt of stage st for document d starts in this step.
Starts(d, st) == job[d][st].pc = "queued" /\ job'[d][st].pc # "queued"

\* The ingest stage of document d ended with a successor message for stage st.
IngestEnqueued(d, st) ==
  \E m \in queue :
    /\ m.task = st
    /\ pc[m.by] = "done"
    /\ d <= Len(records)
    /\ records[d].local_filename = TmpPath(m.args[1])

\* The stage before st in the data flow ran for document d to the point
\* where it enqueues its successor.
PredecessorRan(d, st) ==
  CASE st = "process_with_textract" -> IngestEnqueued(d, st)
    [] st = "extract_metadata_with_gpt" ->
         \/ IngestEnqueued(d, st)
         \/ job[d]["process_with_textract"].pc = "done"
    [] st = "embed_metadata_into_pdf" ->
         job[d]["extract_metadata_with_gpt"].pc = "done"
    [] st = "finalize_document_storage" ->
         job[d]["embed_metadata_into_pdf"].pc \in {"cleanup", "done"}
    [] st = "send_to_all_destinations" ->
         job[d]["finalize_document_storage"].pc = "done"
    [] OTHER -> job[d]["send_to_all_destinations"].pc = "done"

\* Something failed in the run, or the submitted file was no new document:
\* a stage raised or returned an error or the empty result, or the ingest
\* stage ended without a successor.
Stopped ==
  \/ \E t \in Tasks :
       \/ pc[t] = "failed"
       \/ result[t].status \in {"error", "duplicate_file", "raised"}
  \/ \E d \in Docs, st \in Stages :
       \/ job[d][st].pc = "failed"
       \/ job[d][st].result \in {"error", "{}", "raised", "runtime_error", "timeout"}

\* The fan-out ran for document d and its three uploads are enqueued.
FannedOut(d) ==
  /\ job[d]["send_to_all_destinations"].pc = "done"
  /\ \A u \in Uploads : job[d][u].n >= 1

\* Every new document whose run has no failure gets to the fan-out.
ReachesFanOut ==
  \A d \in Docs : (d <= Len(records)) ~> (Stopped \/ FannedOut(d))

\* C31 as stated: an attempt of a stage starts for a document only when the
\* stage before it in the data flow ran for that document and enqueued it,
\* and every new document whose run has no failure eventually has its three
\* uploads enqueued by the fan-out.
C31_OnlyAfterPredecessor ==
  /\ [][\A d \in Docs, st \in Stages : Starts(d, st) => PredecessorRan(d, st)]_vars
  /\ ReachesFanOut

\* C31, amended: an attempt of a stage starts for a document only when the
\* stage before it in the data flow ran for that document and enqueued it,
\* or it is the fan-out or an upload and the file it was enqueued with
\* exists in the processed area (an endpoint can enqueue these for any
\* processed file); and every new document whose run has no failure
\* eventually has its three uploads enqueued by the fan-out.
C31_PipelineOrder ==
  /\ [][\A d \in Docs, st \in Stages :
         Starts(d, st) =>
           \/ PredecessorRan(d, st)
           \/ /\ st \in Direct
              /\ job[d][st].args[1] \in DOMAIN disk
              /\ job[d]["embed_metadata_into_pdf"].pc \in {"cleanup", "done"}]_vars
  /\ ReachesFanOut

\* A scanned document went through every stage in order, nothing failed, its
\* three uploads were enqueued by the fan-out, and the one to Dropbox has run
\* while the other two wait.
C31_Witness ==
  \E d \in Docs :
    /\ ~Stopped
    /\ FannedOut(d)
    /\ \A st \in Stages \ Uploads : job[d][st].pc = "done"
    /\ \A u \in Uploads : job[d][u].n = 1
    /\ job[d]["upload_to_dropbox"].pc = "done"
    /\ job[d]["upload_to_paperless"].pc = "queued"

\* The embedding stage of document d moved its file and wrote the JSON: it
\* enqueued finalize with the final path.
Embedded(d) ==
  /\ d \in DOMAIN job
  /\ job[d]["embed_metadata_into_pdf"].pc \in {"cleanup", "done"}
  /\ job[d]["finalize_document_storage"].n >= 1

\* C32: the embedding stage never overwrites a file that is in the processed
\* area: two documents whose embedding stages both moved their files have
\* two distinct final paths, both in the processed area, also when the two
\* stages interleave between the free-name check and the move.
C32_DistinctFinalPaths ==
  \A d1, d2 \in DOMAIN job :
    (d1 # d2 /\ Embedded(d1) /\ Embedded(d2)) =>
      LET f1 == job[d1]["finalize_document_storage"].args[2]
          f2 == job[d2]["finalize_document_storage"].args[2]
      IN /\ f1 # f2
         /\ {f1, f2} \subseteq DOMAIN disk

\* C33: when the classification stage of a document has ended, it received a
\* parseable response exactly when it enqueued one embedding stage, with the
\* parsed structure, and its result is the empty result exactly when it
\* enqueued no embedding stage.
C33_EmptyResultIffNotEnqueued ==
  \A d \in Docs :
    LET cl == job[d]["extract_metadata_with_gpt"]
        em == job[d]["embed_metadata_into_pdf"]
    IN cl.pc = "done" =>
         /\ em.n = (IF cl.loc = Parsed THEN 1 ELSE 0)
         /\ em.n = 1 => em.args[3] \in Metadatas
         /\ (cl.result = "{}") <=> (em.n = 0)

(***************************************************************************)
(* Claims about the poller under concurrency and errors.                   *)
(***************************************************************************)
\* The cycle p runs release_lock in this step.
Releases(p) == tpc[p] = "release" /\ tpc'[p] = "done"

\* C34: release_lock removes only the lock its own cycle acquired: when a
\* cycle releases while the key exists and belongs to another cycle, the
\* key and its owner stay as they are.
C34_ReleaseOnlyOwnLock ==
  [][\A p \in Ticks :
       (Releases(p) /\ lockKey /\ lockOwner # p) =>
         (lockKey' /\ lockOwner' = lockOwner)]_vars

\* C35: the file of every attachment task that waits in the queue holds the
\* bytes of the attachment the task was enqueued for, so that the task
\* reads them whenever a worker gets to it.
C35_TaskFileHoldsItsAttachment ==
  \A e \in mailq :
    \E i \in PdfParts(e.msg) :
      /\ e.file_path = <<"workdir", MsgParts(e.msg)[i].filename>>
      /\ e.file_path \in DOMAIN fs
      /\ fs[e.file_path] = MsgParts(e.msg)[i].payload

\* C36: no error while the first mailbox is handled keeps the cycle from
\* checking the second: a cycle whose worker lives gets to the finally
\* clause only from the second mailbox, never from the first.
C36_SecondMailboxIsChecked ==
  [][\A p \in Ticks :
       (tpc[p] \in {"mailbox", "messages"} /\ tpc'[p] = "release")
         => tmb[p] = 2]_vars

\* C37: across the cycles of several days, one after the other, with the
\* cache file as the poller wrote it, every attachment of a delivered
\* message is enqueued at most once: no task in the queue is a second one
\* for its file and its message.
C37_EnqueuedAtMostOnce ==
  \A e \in mailq : e.nth = 1

\* The attachment of a message was enqueued and the message is unread again
\* and still in the mailbox; a later cycle pulls that mailbox on the day the
\* load purges the cache entry of the message, and its search does not find
\* the message.
C37_Witness ==
  \E m \in Msgs, p \in Ticks :
    /\ \E e \in mailq : e.msg = m /\ e.date = mbox[m].date
    /\ mbox[m].present /\ mbox[m].unseen /\ ~mbox[m].deleted
    /\ tpc[p] = "messages" /\ tmb[p] = MsgMailbox(m)
    /\ MsgId(m) \in DOMAIN cacheFile
    /\ MsgId(m) \notin DOMAIN tcache[p]
    /\ tlist[p] = <<>>

(***************************************************************************)
(* Claims about submitting the same content again.                         *)
(***************************************************************************)
\* The successor messages the ingest stage has sent for content with hash h.
SuccessorsFor(h) == {m \in queue : hash_file(arg[m.by]) = h}

\* C38: once a record exists for a content hash, an ingest that looks up
\* that hash returns duplicate_file and enqueues nothing, whatever became of
\* the pipeline of the record; so the ingest stage enqueues at most one
\* successor for a content hash, and only by the task that created the
\* record.
C38_NoRestartOnceRecorded ==
  /\ [](\A m \in queue :
          /\ SuccessorsFor(hash_file(arg[m.by])) = {m}
          /\ result[m.by].status \notin {"duplicate_file", "error"})
  /\ [][\A t \in Tasks :
         (/\ pc[t] = "lookup"
          /\ pc'[t] # "lookup"
          /\ RecordsWithHash(loc[t].filehash) # {})
         => /\ pc'[t] = "done"
            /\ result'[t].status = "duplicate_file"
            /\ records' = records
            /\ queue' = queue
            /\ job' = job]_vars

\* The pipeline of a document stopped at the classification stage, which
\* returned the empty result and enqueued nothing; the same bytes were
\* submitted again under another name and the second ingest returned
\* duplicate_file: the one successor message is the first task's.
C38_Witness ==
  \E t, u \in Tasks :
    /\ t # u /\ SameBytes(t, u)
    /\ pc[u] = "done" /\ loc[u].new_record = 1
    /\ job[1]["extract_metadata_with_gpt"].pc = "done"
    /\ job[1]["extract_metadata_with_gpt"].result = "{}"
    /\ job[1]["embed_metadata_into_pdf"].n = 0
    /\ pc[t] = "done" /\ result[t].status = "duplicate_file"
    /\ Cardinality(queue) = 1

\* C39: a failed audit write never changes a stage's outcome.  A settled
\* stage returned exactly when its body returned and raised exactly when
\* its body raised, it enqueued its successor exactly when its body did,
\* and a stage that has started is never settled by an audit write alone,
\* however many of its audit writes failed.
C39_AuditFailureKeepsOutcome ==
  \A t \in Tasks :
    /\ Settled(t) =>
         /\ result[t] # NoResult
         /\ (pc[t] = "done") <=> (result[t] # RaisedResult)
         /\ (pc[t] = "failed") <=> (result[t] = RaisedResult)
         /\ (EnqueuedBy(t) # {}) <=> (result[t] # RaisedResult)
    /\ pc[t] = "returned" => result[t] \notin {NoResult, RaisedResult}
    /\ pc[t] = "raised" => result[t] = RaisedResult
    /\ Len(audit[t]) <= 4

\* Every audit write of one stage failed and the stage returned its result
\* and enqueued its successor; every audit write of another failed and its
\* exception was raised.
C39_Witness ==
  \E t, u \in Tasks :
    /\ pc[t] = "done" /\ audit[t] = <<>>
    /\ result[t].status = "Queued for OCR"
    /\ \E m \in queue : m.by = t /\ m.task = "process_with_textract"
    /\ pc[u] = "failed" /\ audit[u] = <<>> /\ EnqueuedBy(u) = {}

====
